---- MODULE Spec2Model ----
(***************************************************************************)
(* A model of beangulp_importers: the text utilities, the row descriptors, *)
(* the file descriptor (identify / date) and BankingImporter.extract.      *)
(*                                                                         *)
(* Texts are sequences of one-character strings.  A Python call either     *)
(* returns a value or raises: a call result is a record                    *)
(* [ok |-> BOOLEAN, val |-> value, err |-> exception name].                *)
(***************************************************************************)
EXTENDS Integers, Sequences, FiniteSets, TLC

\* ------------------------------------------------------------------ bounds

\* The longest file (number of data rows) handed to extract.
MaxRows == 2

\* The deepest directory nesting of a path handed to identify / date.
MaxDirs == 1

\* ------------------------------------------------------- results of calls

Ok(v) == [ok |-> TRUE, val |-> v, err |-> "none"]

Raise(e) == [ok |-> FALSE, val |-> <<>>, err |-> e]

\* Python's None, as a cell of a row or a field of an entry.
None == <<"None">>

\* ------------------------------------------------------------- characters

Digits == <<"0", "1", "2", "3", "4", "5", "6", "7", "8", "9">>

LowerLetters == <<"a", "b", "c", "d", "e", "f", "g", "h", "i", "j", "k", "l", "m",
                  "n", "o", "p", "q", "r", "s", "t", "u", "v", "w", "x", "y", "z">>

UpperLetters == <<"A", "B", "C", "D", "E", "F", "G", "H", "I", "J", "K", "L", "M",
                  "N", "O", "P", "Q", "R", "S", "T", "U", "V", "W", "X", "Y", "Z">>

Range(s) == {s[i] : i \in DOMAIN s}

DigitSet == Range(Digits)

LetterSet == Range(LowerLetters) \cup Range(UpperLetters)

\* \d, str.isalpha() and \s on one character
IsDigit(c) == c \in DigitSet

IsAlpha(c) == c \in LetterSet

IsSpace(c) == c \in {" ", "\t"}

DigitValue == [c \in DigitSet |-> (CHOOSE i \in DOMAIN Digits : Digits[i] = c) - 1]

UpperOf ==
    [c \in Range(LowerLetters) |->
        UpperLetters[CHOOSE i \in DOMAIN LowerLetters : LowerLetters[i] = c]]

LowerOf ==
    [c \in Range(UpperLetters) |->
        LowerLetters[CHOOSE i \in DOMAIN UpperLetters : UpperLetters[i] = c]]

\* str.upper() / str.lower()
Upper(s) == [i \in DOMAIN s |-> IF s[i] \in DOMAIN UpperOf THEN UpperOf[s[i]] ELSE s[i]]

Lower(s) == [i \in DOMAIN s |-> IF s[i] \in DOMAIN LowerOf THEN LowerOf[s[i]] ELSE s[i]]

\* str.strip()
RECURSIVE LStrip(_)
LStrip(s) == IF s # <<>> /\ IsSpace(Head(s)) THEN LStrip(Tail(s)) ELSE s

RECURSIVE RStrip(_)
RStrip(s) ==
    IF s # <<>> /\ IsSpace(s[Len(s)]) THEN RStrip(SubSeq(s, 1, Len(s) - 1)) ELSE s

Strip(s) == RStrip(LStrip(s))

\* str.replace(c, "") and str.replace(c, d) for one-character c, d
Remove(s, c) == SelectSeq(s, LAMBDA x : x # c)

Replace(s, c, d) == [i \in DOMAIN s |-> IF s[i] = c THEN d ELSE s[i]]

\* ---------------------------------------------------------------- Decimal

\* A Decimal is [coef |-> Int, scale |-> Nat]: the number coef / 10^scale.
RECURSIVE DigitsValue(_)
DigitsValue(s) ==
    IF s = <<>> THEN 0
    ELSE 10 * DigitsValue(SubSeq(s, 1, Len(s) - 1)) + DigitValue[s[Len(s)]]

\* A Decimal that loses the sign of the text.
DecimalOfUnsigned(number) ==
    LET signed == number # <<>> /\ Head(number) \in {"+", "-"}
        body   == IF signed THEN Tail(number) ELSE number
        points == {i \in DOMAIN body : body[i] = "."}
        digs   == SelectSeq(body, IsDigit)
        point  == CHOOSE i \in points : TRUE
    IN  IF \/ digs = <<>>
           \/ Cardinality(points) > 1
           \/ \E i \in DOMAIN body : ~IsDigit(body[i]) /\ body[i] # "."
        THEN Raise("InvalidOperation")
        ELSE Ok([coef  |-> DigitsValue(digs),
                 scale |-> IF points = {} THEN 0 ELSE Len(body) - point])

\* decimal.Decimal(text) on a text of an optional sign, digits and points:
\* at least one digit and at most one point, else InvalidOperation.
DecimalOf(number) ==
    LET signed == number # <<>> /\ Head(number) \in {"+", "-"}
        body   == IF signed THEN Tail(number) ELSE number
        points == {i \in DOMAIN body : body[i] = "."}
        digs   == SelectSeq(body, IsDigit)
        point  == CHOOSE i \in points : TRUE
    IN  IF \/ digs = <<>>
           \/ Cardinality(points) > 1
           \/ \E i \in DOMAIN body : ~IsDigit(body[i]) /\ body[i] # "."
        THEN Raise("InvalidOperation")
        ELSE Ok([coef  |-> (IF signed /\ Head(number) = "-" THEN -1 ELSE 1)
                             * DigitsValue(digs),
                 scale |-> IF points = {} THEN 0 ELSE Len(body) - point])

\* for sep in separators[:-1]: text = text.replace(sep, "")
RECURSIVE StripSeparators(_, _)
StripSeparators(text, seps) ==
    IF seps = <<>> THEN text
    ELSE StripSeparators(Remove(text, Head(seps)), Tail(seps))

\* string_utils.convert_text_to_decimal.  `number` is assigned only inside
\* `if separators:`; a text without any separator reads it unassigned.
convert_text_to_decimal(text0) ==
    LET text1      == Strip(text0)
        hasSign    == text1 # <<>> /\ Head(text1) \in {"+", "-"}
        sign       == IF hasSign THEN <<Head(text1)>> ELSE <<>>
        text2      == IF hasSign THEN Strip(Tail(text1)) ELSE text1
        separators == SelectSeq(text2, LAMBDA c : ~IsDigit(c))
        text3      == StripSeparators(text2, SubSeq(separators, 1, Len(separators) - 1))
        number     == Replace(text3, separators[Len(separators)], ".")
    IN  IF text0 = None THEN Raise("AttributeError")
        ELSE IF text1 = <<>> THEN Ok([coef |-> 0, scale |-> 0])
        ELSE IF separators = <<>> THEN Raise("UnboundLocalError")
        ELSE DecimalOf(sign \o number)

\* datatypes.Currency: the members, by name (each member's value is its name).
Currency == {<<"C", "H", "F">>, <<"E", "U", "R">>, <<"S", "E", "K">>,
             <<"U", "S", "D">>, <<"G", "B", "P">>}

\* A lookup that passes the cleaned text through when it names no member.
CurrencyPassedThrough(text) ==
    IF text = None THEN Raise("TypeError")
    ELSE Ok(Upper(SelectSeq(text, IsAlpha)))

\* string_utils.convert_text_to_currency
convert_text_to_currency(text) ==
    LET cleaned_text == Upper(SelectSeq(text, IsAlpha))
    IN  IF text = None THEN Raise("TypeError")
        ELSE IF cleaned_text \in Currency THEN Ok(cleaned_text) ELSE Raise("ValueError")

\* string_utils.convert_text_to_sign: positive_words and negative_words
positive_words ==
    { <<"p", "o", "s", "i", "t", "i", "v", "e">>,
      <<"c", "r", "e", "d", "i", "t">>,
      <<"d", "e", "p", "o", "s", "i", "t">>,
      <<"g", "a", "i", "n">>,
      <<"i", "n", "c", "r", "e", "a", "s", "e">>,
      <<"b", "i", "j">> }

negative_words ==
    { <<"n", "e", "g", "a", "t", "i", "v", "e">>,
      <<"d", "e", "b", "i", "t">>,
      <<"w", "i", "t", "h", "d", "r", "a", "w", "a", "l">>,
      <<"l", "o", "s", "s">>,
      <<"d", "e", "c", "r", "e", "a", "s", "e">>,
      <<"a", "f">> }

\* string_utils.convert_text_to_sign
convert_text_to_sign(text) ==
    IF text = None THEN Raise("AttributeError")
    ELSE IF Lower(text) \in positive_words THEN Ok(1)
    ELSE IF Lower(text) \in negative_words THEN Ok(-1)
    ELSE Raise("ValueError")

\* string_utils.clean_text: re.sub(r'[^a-zA-Z0-9\s]', '', text).lower()
clean_text(text) ==
    IF text = None THEN Raise("TypeError")
    ELSE Ok(Lower(SelectSeq(text, LAMBDA c : IsAlpha(c) \/ IsDigit(c) \/ IsSpace(c))))

\* re.sub(r'\s+', ' ', text): every run of whitespace becomes one space.
CollapseSpace(text) ==
    LET keep == {i \in DOMAIN text : ~IsSpace(text[i]) \/ i = 1 \/ ~IsSpace(text[i - 1])}
        pick == SelectSeq([i \in DOMAIN text |-> i], LAMBDA i : i \in keep)
    IN  [k \in DOMAIN pick |-> IF IsSpace(text[pick[k]]) THEN " " ELSE text[pick[k]]]

\* string_utils.reduce_whitespace
reduce_whitespace(text) == Strip(CollapseSpace(text))

Ellipsis == <<".", ".", ".">>

\* text.rsplit(' ', 1)[0]: what precedes the last space, the whole text without one.
RSplitHead(text) ==
    LET spaces == {i \in DOMAIN text : text[i] = " "}
    IN  IF spaces = {} THEN text
        ELSE SubSeq(text, 1, (CHOOSE i \in spaces : \A j \in spaces : j <= i) - 1)

\* string_utils.shorten_text
shorten_text(text, max_length) ==
    IF max_length < -1 THEN Raise("ValueError")
    ELSE IF max_length = -1 THEN Ok(text)
    ELSE IF Len(text) <= max_length THEN Ok(text)
    ELSE Ok(RSplitHead(SubSeq(text, 1, max_length)) \o Ellipsis)

\* ------------------------------------------------------------------ dates

\* A calendar date is its proleptic Gregorian ordinal (date.toordinal()).
DaysInMonth(y, m) ==
    IF m = 2 THEN (IF (y % 4 = 0 /\ y % 100 # 0) \/ y % 400 = 0 THEN 29 ELSE 28)
    ELSE IF m \in {4, 6, 9, 11} THEN 30 ELSE 31

RECURSIVE DaysBeforeMonth(_, _)
DaysBeforeMonth(y, m) ==
    IF m = 1 THEN 0 ELSE DaysBeforeMonth(y, m - 1) + DaysInMonth(y, m - 1)

Ordinal(y, m, d) ==
    365 * (y - 1) + ((y - 1) \div 4) - ((y - 1) \div 100) + ((y - 1) \div 400)
        + DaysBeforeMonth(y, m) + d

\* The date formats of the importers, as directives and literal characters.
FormatDate == <<"%Y", "-", "%m", "-", "%d">>

FormatTimestamp == <<"%Y", "-", "%m", "-", "%d", " ", "%H", ":", "%M", ":", "%S">>

Directives == {"%Y", "%m", "%d", "%H", "%M", "%S"}

\* The longest run of leading digits of text, at most width long.
RECURSIVE DigitRun(_, _)
DigitRun(text, width) ==
    IF width = 0 \/ text = <<>> \/ ~IsDigit(Head(text)) THEN <<>>
    ELSE <<Head(text)>> \o DigitRun(Tail(text), width - 1)

DirectiveOk(dir, run) ==
    LET v == DigitsValue(run)
    IN  /\ run # <<>>
        /\ CASE dir = "%Y" -> Len(run) = 4
             [] dir = "%m" -> v \in 1..12
             [] dir = "%d" -> v \in 1..31
             [] dir = "%H" -> v \in 0..23
             [] dir = "%M" -> v \in 0..59
             [] dir = "%S" -> v \in 0..61

\* _strptime: the fields of text under fmt, or no match (ok = FALSE).
RECURSIVE MatchFormat(_, _, _)
MatchFormat(text, fmt, fields) ==
    IF fmt = <<>> THEN [ok |-> text = <<>>, fields |-> fields]
    ELSE IF Head(fmt) \in Directives
    THEN LET run == DigitRun(text, IF Head(fmt) = "%Y" THEN 4 ELSE 2)
         IN  IF DirectiveOk(Head(fmt), run)
             THEN MatchFormat(SubSeq(text, Len(run) + 1, Len(text)), Tail(fmt),
                              [fields EXCEPT ![Head(fmt)] = DigitsValue(run)])
             ELSE [ok |-> FALSE, fields |-> fields]
    ELSE IF text # <<>> /\ Head(text) = Head(fmt)
    THEN MatchFormat(Tail(text), Tail(fmt), fields)
    ELSE [ok |-> FALSE, fields |-> fields]

\* datetime.strptime(text, fmt).date(): the time of day is dropped.
strptime_date(text, fmt) ==
    IF text = None THEN Raise("TypeError")
    ELSE LET m == MatchFormat(text, fmt, [d \in Directives |-> 0])
             f == m.fields
         IN  IF m.ok /\ f["%d"] <= DaysInMonth(f["%Y"], f["%m"])
             THEN Ok(Ordinal(f["%Y"], f["%m"], f["%d"]))
             ELSE Raise("ValueError")

\* ------------------------------------------------------------ descriptors

\* A row ("text entry") is a function from column names to cells; a cell is a
\* text or None.  A descriptor is a record of its kind and its fields.

\* descriptors/*.py: _require_keys, the first missing key raises KeyError.
require_keys(text_entry, keys) ==
    IF \E i \in DOMAIN keys : keys[i] \notin DOMAIN text_entry
    THEN Raise("KeyError") ELSE Ok(TRUE)

\* The value a date descriptor hands to extract: a date, or a tuple of two.
DateValue(d) == [tag |-> "date", a |-> d, b |-> 0]

TupleValue(p, t) == [tag |-> "tuple", a |-> p, b |-> t]

\* No date (None): a bound that is not configured, a date that is absent.
NoDate == [tag |-> "None", a |-> 0, b |-> 0]

\* x = f(); rest(x): an exception raised by f() leaves the caller as well.
Bind(r, rest(_)) == IF r.ok THEN rest(r.val) ELSE r

\* descriptors/date.py: FromDate.__call__
FromDate(self, text_entry) ==
    Bind(require_keys(text_entry, <<self.date>>), LAMBDA k :
    Bind(strptime_date(text_entry[self.date], self.date_format), LAMBDA date_value :
    Ok(DateValue(date_value))))

\* A comparison that rejects equal dates as well.
FromPostingTransactionDateStrict(self, text_entry) ==
    Bind(require_keys(text_entry, <<self.posting_date, self.transaction_date>>),
         LAMBDA k :
    Bind(strptime_date(text_entry[self.posting_date], self.date_format),
         LAMBDA posting_date_value :
    Bind(strptime_date(text_entry[self.transaction_date], self.date_format),
         LAMBDA transaction_date_value :
    IF posting_date_value >= transaction_date_value THEN Raise("ValueError")
    ELSE Ok(TupleValue(posting_date_value, transaction_date_value)))))

\* descriptors/date.py: FromPostingTransactionDate.__call__
FromPostingTransactionDate(self, text_entry) ==
    Bind(require_keys(text_entry, <<self.posting_date, self.transaction_date>>),
         LAMBDA k :
    Bind(strptime_date(text_entry[self.posting_date], self.date_format),
         LAMBDA posting_date_value :
    Bind(strptime_date(text_entry[self.transaction_date], self.date_format),
         LAMBDA transaction_date_value :
    IF posting_date_value > transaction_date_value THEN Raise("ValueError")
    ELSE Ok(TupleValue(posting_date_value, transaction_date_value)))))

\* FromDate with the empty-date sentinel that importers/revolut_banking.py
\* constructs (empty_date=""): a cell equal to the sentinel gives an absent
\* date, any other cell is FromDate's.
FromDateOrAbsent(self, text_entry) ==
    Bind(require_keys(text_entry, <<self.date>>), LAMBDA k :
    IF text_entry[self.date] = self.empty_date THEN Ok(NoDate)
    ELSE FromDate(self, text_entry))

\* A DateIdentifier, called.
CallDate(self, text_entry) ==
    IF self.kind = "FromDate" THEN FromDate(self, text_entry)
    ELSE IF self.kind = "FromDateOrAbsent" THEN FromDateOrAbsent(self, text_entry)
    ELSE FromPostingTransactionDate(self, text_entry)

\* shorten_text(reduce_whitespace(clean_text(text)), max_length)
CleanField(text, max_length) ==
    Bind(clean_text(text), LAMBDA cleaned :
    shorten_text(reduce_whitespace(cleaned), max_length))

\* if text is None: text = ""
NullGuard(text) == IF text = None THEN <<>> ELSE text

\* descriptors/payee_narration.py: FromPayeeNarration.__call__
FromPayeeNarration(self, text_entry) ==
    Bind(require_keys(text_entry, <<self.payee_key, self.narration_key>>), LAMBDA k :
    Bind(CleanField(NullGuard(text_entry[self.payee_key]), self.max_payee_length),
         LAMBDA payee_value :
    Bind(CleanField(NullGuard(text_entry[self.narration_key]),
                    self.max_narration_length),
         LAMBDA narration_value :
    Ok([payee |-> payee_value, narration |-> narration_value]))))

\* descriptors/payee_narration.py: FromPayee.__call__.  max_payee_length is
\* passed to reduce_whitespace, which takes one argument: the call raises.
FromPayee(self, text_entry) ==
    Bind(require_keys(text_entry, <<self.payee_key>>), LAMBDA k :
    Bind(clean_text(text_entry[self.payee_key]), LAMBDA cleaned :
    Raise("TypeError")))

\* descriptors/payee_narration.py: FromNarration.__call__
FromNarration(self, text_entry) ==
    Bind(require_keys(text_entry, <<self.narration_key>>), LAMBDA k :
    Bind(CleanField(text_entry[self.narration_key], self.max_narration_length),
         LAMBDA narration_value :
    Ok([payee |-> None, narration |-> narration_value])))

\* A PayeeNarrationIdentifier, called.
CallPayeeNarration(self, text_entry) ==
    IF self.kind = "FromPayeeNarration" THEN FromPayeeNarration(self, text_entry)
    ELSE IF self.kind = "FromPayee" THEN FromPayee(self, text_entry)
    ELSE FromNarration(self, text_entry)

\* beancount's Amount(number, currency)
Amount(number, currency) == [number |-> number, currency |-> currency]

\* descriptors/amount.py: FromAmount.__call__
FromAmount(self, text_entry) ==
    Bind(require_keys(text_entry, <<self.amount_key, self.currency_key>>), LAMBDA k :
    Bind(convert_text_to_decimal(text_entry[self.amount_key]), LAMBDA amount_value :
    Bind(convert_text_to_currency(text_entry[self.currency_key]),
         LAMBDA currency_value :
    Ok(Amount(amount_value, currency_value)))))

\* A deposit that mistakes the withdrawal for a debit and negates it.
DepositOrWithdrawalNegated(deposit_value, withdrawal_value, currency_value) ==
    IF deposit_value.coef # 0 /\ withdrawal_value.coef = 0
    THEN Ok(Amount(deposit_value, currency_value))
    ELSE IF deposit_value.coef = 0 /\ withdrawal_value.coef # 0
    THEN Ok(Amount([withdrawal_value EXCEPT !.coef = -withdrawal_value.coef],
                   currency_value))
    ELSE Raise("ValueError")

\* if deposit_value != 0 and withdrawal_value == 0: ... elif ...: ... else: raise
DepositOrWithdrawal(deposit_value, withdrawal_value, currency_value) ==
    IF deposit_value.coef # 0 /\ withdrawal_value.coef = 0
    THEN Ok(Amount(deposit_value, currency_value))
    ELSE IF deposit_value.coef = 0 /\ withdrawal_value.coef # 0
    THEN Ok(Amount(withdrawal_value, currency_value))
    ELSE Raise("ValueError")

\* descriptors/amount.py: FromDepositWithdraw.__call__
FromDepositWithdraw(self, text_entry) ==
    Bind(require_keys(text_entry, <<self.deposit_key, self.withdraw_key,
                                    self.currency_key>>), LAMBDA k :
    Bind(convert_text_to_decimal(text_entry[self.deposit_key]), LAMBDA deposit_value :
    Bind(convert_text_to_decimal(text_entry[self.withdraw_key]),
         LAMBDA withdrawal_value :
    Bind(convert_text_to_currency(text_entry[self.currency_key]),
         LAMBDA currency_value :
    DepositOrWithdrawal(deposit_value, withdrawal_value, currency_value)))))

\* A product that drops the sign.
SignedUnsigned(sign_value, amount_value) == amount_value

\* sign_value * amount_value
Signed(sign_value, amount_value) ==
    [amount_value EXCEPT !.coef = sign_value * amount_value.coef]

\* descriptors/amount.py: FromSignAmount.__call__
FromSignAmount(self, text_entry) ==
    Bind(require_keys(text_entry, <<self.sign_key, self.amount_key,
                                    self.currency_key>>), LAMBDA k :
    Bind(convert_text_to_decimal(text_entry[self.amount_key]), LAMBDA amount_value :
    Bind(convert_text_to_sign(text_entry[self.sign_key]), LAMBDA sign_value :
    Bind(convert_text_to_currency(text_entry[self.currency_key]),
         LAMBDA currency_value :
    Ok(Amount(Signed(sign_value, amount_value), currency_value))))))

\* A fixed-currency descriptor that still requires the currency column.
FromAmountWithCurrencyAndColumn(self, text_entry) ==
    Bind(require_keys(text_entry, <<self.amount_key, "Currency">>), LAMBDA k :
    Bind(convert_text_to_decimal(text_entry[self.amount_key]), LAMBDA amount_value :
    Ok(Amount(amount_value, self.currency))))

\* descriptors/amount.py: FromAmountWithCurrency.__call__
FromAmountWithCurrency(self, text_entry) ==
    Bind(require_keys(text_entry, <<self.amount_key>>), LAMBDA k :
    Bind(convert_text_to_decimal(text_entry[self.amount_key]), LAMBDA amount_value :
    Ok(Amount(amount_value, self.currency))))

\* descriptors/amount.py: FromDepositWithdrawWithCurrency.__call__
FromDepositWithdrawWithCurrency(self, text_entry) ==
    Bind(require_keys(text_entry, <<self.deposit_key, self.withdraw_key>>), LAMBDA k :
    Bind(convert_text_to_decimal(text_entry[self.deposit_key]), LAMBDA deposit_value :
    Bind(convert_text_to_decimal(text_entry[self.withdraw_key]),
         LAMBDA withdrawal_value :
    DepositOrWithdrawal(deposit_value, withdrawal_value, self.currency))))

\* descriptors/amount.py: FromSignAmountWithCurrency.__call__
FromSignAmountWithCurrency(self, text_entry) ==
    Bind(require_keys(text_entry, <<self.sign_key, self.amount_key>>), LAMBDA k :
    Bind(convert_text_to_decimal(text_entry[self.amount_key]), LAMBDA amount_value :
    Bind(convert_text_to_sign(text_entry[self.sign_key]), LAMBDA sign_value :
    Ok(Amount(Signed(sign_value, amount_value), self.currency)))))

\* An AmountIdentifier, called.
CallAmount(self, text_entry) ==
    CASE self.kind = "FromAmount" -> FromAmount(self, text_entry)
      [] self.kind = "FromDepositWithdraw" -> FromDepositWithdraw(self, text_entry)
      [] self.kind = "FromSignAmount" -> FromSignAmount(self, text_entry)
      [] self.kind = "FromAmountWithCurrency" -> FromAmountWithCurrency(self, text_entry)
      [] self.kind = "FromDepositWithdrawWithCurrency" ->
             FromDepositWithdrawWithCurrency(self, text_entry)
      [] self.kind = "FromSignAmountWithCurrency" ->
             FromSignAmountWithCurrency(self, text_entry)

\* A lookup in which the last member whose labels contain the value wins.
RECURSIVE LookupTypeLast(_, _)
LookupTypeLast(items, raw) ==
    IF items = <<>> THEN Raise("ValueError")
    ELSE IF raw \in Range(items[Len(items)].labels) THEN Ok(items[Len(items)].member)
    ELSE LookupTypeLast(SubSeq(items, 1, Len(items) - 1), raw)

\* descriptors/transaction_type.py: FromTransactionType.__call__.  The mapping
\* is the sequence of its items in iteration order.
RECURSIVE LookupType(_, _)
LookupType(items, raw) ==
    IF items = <<>> THEN Raise("ValueError")
    ELSE IF raw \in Range(Head(items).labels) THEN Ok(Head(items).member)
    ELSE LookupType(Tail(items), raw)

FromTransactionType(self, text_entry) ==
    Bind(require_keys(text_entry, <<self.transaction_type_key>>), LAMBDA k :
    LookupType(self.transaction_type_mapping, text_entry[self.transaction_type_key]))

\* ------------------------------------------------------------ sample data

\* The texts of the cells, file names and arguments of the samples.
Sample ==
    [ Aug01 |-> <<"2", "0", "2", "4", "-", "0", "8", "-", "0", "1">>,
      Aug31 |-> <<"2", "0", "2", "4", "-", "0", "8", "-", "3", "1">>,
      Month13 |-> <<"2", "0", "2", "4", "-", "1", "3", "-", "0", "1">>,
      TopUpByCard |-> <<"T", "o", "p", "-", "U", "p", " ", " ", "b", "y", " ", "C", "a", "r", "d", "!">>,
      Acme |-> <<"A", "C", "M", "E", " ", "C", "o", "r", "p">>,
      Txt1234 |-> <<"1", "2", ".", "3", "4">>,
      Txt000 |-> <<"0", ".", "0", "0">>,
      Txt100 |-> <<"1", "0", "0">>,
      Txt10000 |-> <<"1", "0", "0", ".", "0", "0">>,
      TxtX |-> <<"x">>,
      TxtBad |-> <<"b", "a", "d">>,
      TxtEUR |-> <<"E", "U", "R">>,
      TxtChf |-> <<"c", "h", "f", " ">>,
      TxtXYZ |-> <<"X", "Y", "Z">>,
      TOPUP |-> <<"T", "O", "P", "U", "P">>,
      EXCHANGE |-> <<"E", "X", "C", "H", "A", "N", "G", "E">>,
      REFUND |-> <<"R", "E", "F", "U", "N", "D">>,
      UNKNOWN |-> <<"?", "?", "?">>,
      TxtSt |-> <<"s", "t", "_">>,
      TxtXx |-> <<"x", "x", "_">>,
      TxtEn |-> <<"_", "e", "n">>,
      DotCsv |-> <<".", "c", "s", "v">>,
      DotXlsx |-> <<".", "x", "l", "s", "x">>,
      Txt5000 |-> <<"5", "0", ",", "0", "0">>,
      Txt2000 |-> <<"2", "0", ",", "0", "0">>,
      Txt0 |-> <<"0", ",", "0", "0">>,
      TxtMinus2000 |-> <<"-", "2", "0", ",", "0", "0">>,
      Txt123456 |-> <<"1", ".", "2", "3", "4", ",", "5", "6">>,
      Txt1234567 |-> <<"1", ".", "2", "3", "4", ".", "5", "6", "7">>,
      TxtMinus1234 |-> <<"-", "1", "2", ".", "3", "4">>,
      TxtBij |-> <<"B", "i", "j">>,
      TxtAf |-> <<"A", "f">>,
      TxtCREDIT |-> <<"C", "R", "E", "D", "I", "T">>,
      TxtDebit |-> <<"d", "e", "b", "i", "t">>,
      TxtPlus |-> <<"p", "l", "u", "s">>,
      TxtEurSpace |-> <<"e", "u", "r", " ">>,
      TxtEURO |-> <<"E", "U", "R", "O">>,
      Aug15Text |-> <<"2", "0", "2", "4", "-", "0", "8", "-", "1", "5">>,
      Aug01At10 |-> <<"2", "0", "2", "4", "-", "0", "8", "-", "0", "1", " ",
                      "1", "0", ":", "0", "0", ":", "0", "0">>,
      Aug31At23 |-> <<"2", "0", "2", "4", "-", "0", "8", "-", "3", "1", " ",
                      "2", "3", ":", "5", "9", ":", "5", "9">> ]

EmptyText == <<>>

\* The Currency members the sample files name.
EUR == <<"E", "U", "R">>

CHF == <<"C", "H", "F">>

\* A well-formed row of a statement in the Revolut shape.
BaseRow(date, currency) ==
    [ Type |-> Sample.TOPUP, StartedDate |-> date, CompletedDate |-> date,
      Description |-> Sample.TopUpByCard, Counterparty |-> Sample.Acme, Amount |-> Sample.Txt1234,
      Fee |-> Sample.Txt000, Currency |-> currency, Balance |-> Sample.Txt10000 ]

\* A well-formed row whose amount and balance are zero, whose type is one the
\* mapping classifies as skip and whose description is empty.
ZeroRow(date, currency) ==
    [BaseRow(date, currency) EXCEPT !.Type = Sample.REFUND, !.Description = EmptyText,
                                    !.Amount = Sample.Txt000, !.Balance = Sample.Txt000]

\* The rows of the sample files: three well-formed rows, rows with one cell
\* that some descriptor rejects (the third of them, completed after it started,
\* is rejected by FromPostingTransactionDate alone and the fourth by
\* FromNarration alone) and a row without the Description column.
Rows ==
    LET base == BaseRow(Sample.Aug01, Sample.TxtEUR)
    IN  { base,
          BaseRow(Sample.Aug31, Sample.TxtChf),
          ZeroRow(Sample.Aug01, Sample.TxtEUR),
          [base EXCEPT !.CompletedDate = EmptyText],
          [base EXCEPT !.Amount = Sample.Txt100],
          [BaseRow(Sample.Aug31, Sample.TxtEUR) EXCEPT !.StartedDate = Sample.Aug01],
          [base EXCEPT !.Description = None],
          [base EXCEPT !.Currency = Sample.TxtXYZ],
          [base EXCEPT !.Type = Sample.UNKNOWN],
          [base EXCEPT !.Fee = Sample.TxtX],
          [base EXCEPT !.Balance = Sample.TxtBad],
          [k \in DOMAIN base \ {"Description"} |-> base[k]] }

\* The files: every sequence of at most MaxRows rows.
Files == UNION {[1..n -> Rows] : n \in 0..MaxRows}

\* An optional descriptor that is not configured (None).
NoDescriptor == [kind |-> "None"]

\* The date and payee/narration descriptors of the importers: a single date
\* with a narration, or posting and transaction dates with payee and narration.
RowDescriptors ==
    { [ get_date |-> [kind |-> "FromDate", date |-> "CompletedDate",
                      date_format |-> FormatDate],
        get_payee_narration |-> [kind |-> "FromNarration",
                                 narration_key |-> "Description",
                                 max_narration_length |-> 8] ],
      [ get_date |-> [kind |-> "FromPostingTransactionDate",
                      posting_date |-> "CompletedDate",
                      transaction_date |-> "StartedDate",
                      date_format |-> FormatDate],
        get_payee_narration |-> [kind |-> "FromPayeeNarration",
                                 payee_key |-> "Counterparty",
                                 max_payee_length |-> -1,
                                 narration_key |-> "Description",
                                 max_narration_length |-> 8] ] }

TypeDescriptor ==
    [ transaction_type_key |-> "Type",
      transaction_type_mapping |->
          << [member |-> "exchange", labels |-> <<Sample.EXCHANGE>>],
             [member |-> "transfer", labels |-> <<Sample.TOPUP>>],
             [member |-> "skip", labels |-> <<Sample.REFUND>>] >> ]

AmountDescriptor(key) ==
    [kind |-> "FromAmount", amount_key |-> key, currency_key |-> "Currency"]

\* The importer configurations: BankingImporter's frozen fields.
Importers ==
    { [ root_account |-> "Assets:Revolut", fee_account |-> fee.account,
        get_date |-> rd.get_date, get_payee_narration |-> rd.get_payee_narration,
        get_transaction_type |-> TypeDescriptor,
        get_root_amount |-> AmountDescriptor("Amount"),
        get_fee_amount |-> fee.get, get_balance |-> gb ] :
      rd \in RowDescriptors,
      fee \in { [account |-> "None", get |-> NoDescriptor],
                [account |-> "None", get |-> AmountDescriptor("Fee")],
                [account |-> "Expenses:Fee", get |-> AmountDescriptor("Fee")] },
      gb \in {NoDescriptor, AmountDescriptor("Balance")} }

\* ------------------------------------------------- file names and contents

\* str.endswith
EndsWith(s, suffix) ==
    /\ Len(suffix) <= Len(s)
    /\ SubSeq(s, Len(s) - Len(suffix) + 1, Len(s)) = suffix

\* str.startswith
StartsWith(s, prefix) ==
    /\ Len(prefix) <= Len(s)
    /\ SubSeq(s, 1, Len(prefix)) = prefix

\* The positions of the path separator in a path.
Separators(filepath) == {i \in DOMAIN filepath : filepath[i] = "/"}

Max(S) == CHOOSE x \in S : \A y \in S : y <= x

\* A basename that keeps the directories of the path.
BasenameWholePath(filepath) == filepath

\* os.path.basename of a POSIX path: what follows the last separator.
basename(filepath) ==
    IF Separators(filepath) = {} THEN filepath
    ELSE SubSeq(filepath, Max(Separators(filepath)) + 1, Len(filepath))

\* The filename patterns of the importers have the shape
\*     ^<prefix>(?P<date>\d{4}-\d{2}-\d{2}).*<suffix>$
\* and are modelled by their prefix and suffix; EmptyRegex is the pattern "".
EmptyRegex == [kind |-> "empty"]

\* \d{4}-\d{2}-\d{2}
DateShaped(text) ==
    /\ Len(text) = 10
    /\ \A i \in {1, 2, 3, 4, 6, 7, 9, 10} : IsDigit(text[i])
    /\ text[5] = "-" /\ text[8] = "-"

NoMatch == [matched |-> FALSE, groups |-> {}, date |-> <<>>]

\* re.match(regex, filename): whether the name matches, the names of the groups
\* of the pattern and the text the group `date` captured.  The pattern ""
\* matches every name and has no group.
re_match(regex, filename) ==
    IF regex.kind = "empty" THEN [matched |-> TRUE, groups |-> {}, date |-> <<>>]
    ELSE LET n == Len(regex.prefix)
         IN  IF /\ Len(filename) >= n + 10 + Len(regex.suffix)
                /\ StartsWith(filename, regex.prefix)
                /\ DateShaped(SubSeq(filename, n + 1, n + 10))
                /\ EndsWith(SubSeq(filename, n + 11, Len(filename)), regex.suffix)
             THEN [matched |-> TRUE, groups |-> {"date"},
                   date |-> SubSeq(filename, n + 1, n + 10)]
             ELSE NoMatch

\* match.group("date") and the strptime of what it captured.
ParseGroup(match, date_format) ==
    IF "date" \notin match.groups THEN Raise("IndexError")
    ELSE IF strptime_date(match.date, date_format).ok
    THEN strptime_date(match.date, date_format)
    ELSE Raise("ValueError")

\* string_utils.py: extract_date_from_filename
extract_date_from_filename(filepath, regex, date_format) ==
    IF ~re_match(regex, basename(filepath)).matched THEN Raise("ValueError")
    ELSE ParseGroup(re_match(regex, basename(filepath)), date_format)

\* string_utils.py: match_filepath_extension
match_filepath_extension(filepath, extension) ==
    IF filepath = <<>> THEN Raise("ValueError")
    ELSE Ok(EndsWith(filepath, extension))

\* string_utils.py: match_filepath_pattern
match_filepath_pattern(filepath, regex) ==
    IF filepath = <<>> THEN Raise("ValueError")
    ELSE IF regex.kind = "empty" THEN Raise("ValueError")
    ELSE Ok(re_match(regex, basename(filepath)).matched)

\* A range check that looks at the start date only.
WithinRangeFromStart(file_date, start_date, end_date) ==
    ~(start_date.tag = "date" /\ file_date < start_date.a)

\* The range check of match_filepath_date, on the date of the file.
WithinRange(file_date, start_date, end_date) ==
    IF start_date.tag = "date" /\ file_date < start_date.a THEN FALSE
    ELSE IF end_date.tag = "date" /\ file_date > end_date.a THEN FALSE
    ELSE TRUE

\* string_utils.py: match_filepath_date; the ValueError of
\* extract_date_from_filename is caught and raised again as a ValueError.
match_filepath_date(filepath, regex, date_format, start_date, end_date) ==
    IF filepath = <<>> THEN Raise("ValueError")
    ELSE Bind(extract_date_from_filename(filepath, regex, date_format),
              LAMBDA file_date : Ok(WithinRange(file_date, start_date, end_date)))

\* The content of the file at a path: its header row and its data rows.
Table(header, rows) == [header |-> header, rows |-> rows]

\* file_utils.py: match_csv_header
match_csv_header(table, header) == Ok(table.header = header)

\* file_utils.py: match_xlsx_header
match_xlsx_header(table, header) == Ok(table.header = header)

\* all(item in row.items() for item in entry_dict.items())
ContainsItems(row, entry_dict) ==
    \A k \in DOMAIN entry_dict : k \in DOMAIN row /\ row[k] = entry_dict[k]

\* read_csv_table / read_xlsx_table with row = 0: the view of the first data
\* row alone, empty when the file has no data row.
RowSlice(table) == IF table.rows = <<>> THEN <<>> ELSE <<table.rows[1]>>

\* file_utils.py: match_csv_entry
match_csv_entry(table, entry_dict) ==
    IF Len(RowSlice(table)) = 0 THEN Ok(FALSE)
    ELSE Ok(ContainsItems(RowSlice(table)[1], entry_dict))

\* file_utils.py: match_xlsx_entry; `target_dict.items()` is asked of the view
\* of the rows, which has no such attribute, once per item of entry_dict.
match_xlsx_entry(table, entry_dict) ==
    IF Len(RowSlice(table)) = 0 THEN Ok(FALSE)
    ELSE IF DOMAIN entry_dict = {} THEN Ok(TRUE)
    ELSE Raise("AttributeError")

\* An entry mapping that is not configured (None), and a configured one.
NoMapping == [kind |-> "None"]

Mapping(items) == [kind |-> "dict", items |-> items]

\* bool(entry_mapping): None and the empty mapping are false.
MappingTruthy(entry_mapping) ==
    entry_mapping.kind = "dict" /\ DOMAIN entry_mapping.items # {}

\* What a call of identify leaves: its result and the stages it evaluated, in
\* the order it evaluated them.
Outcome(r, evaluated) ==
    [ok |-> r.ok, val |-> r.val, err |-> r.err, evaluated |-> evaluated]

\* if not stage(...): return False
Check(r, evaluated, rest(_)) ==
    IF ~r.ok THEN Outcome(r, evaluated)
    ELSE IF ~r.val THEN Outcome(Ok(FALSE), evaluated)
    ELSE rest(evaluated)

\* if self.entry_mapping and not match_csv_entry(...): return False
CsvEntryStage(self, table, evaluated) ==
    IF MappingTruthy(self.entry_mapping)
    THEN Check(match_csv_entry(table, self.entry_mapping.items),
               evaluated \o <<"entry">>, LAMBDA e : Outcome(Ok(TRUE), e))
    ELSE Outcome(Ok(TRUE), evaluated)

\* if self.entry_mapping and not match_xlsx_entry(...): return False
XlsxEntryStage(self, table, evaluated) ==
    IF MappingTruthy(self.entry_mapping)
    THEN Check(match_xlsx_entry(table, self.entry_mapping.items),
               evaluated \o <<"entry">>, LAMBDA e : Outcome(Ok(TRUE), e))
    ELSE Outcome(Ok(TRUE), evaluated)

\* The three stages of identify that look at the name of the file only.
FilenameStages(self, filepath, rest(_)) ==
    Check(match_filepath_extension(filepath, self.file_extension),
          <<"extension">>, LAMBDA e1 :
    Check(match_filepath_pattern(filepath, self.file_pattern_regex),
          e1 \o <<"pattern">>, LAMBDA e2 :
    Check(match_filepath_date(filepath, self.file_pattern_regex, self.file_date_format,
                              self.start_date, self.end_date),
          e2 \o <<"date">>, rest)))

\* descriptors/file.py: FileDescriptionCSV.identify
FileDescriptionCSV_identify(self, filepath, table) ==
    IF filepath = <<>> THEN Outcome(Raise("ValueError"), <<>>)
    ELSE FilenameStages(self, filepath, LAMBDA e3 :
         Check(match_csv_header(table, self.file_header), e3 \o <<"header">>,
               LAMBDA e4 : CsvEntryStage(self, table, e4)))

\* descriptors/file.py: FileDescriptionXLSX.identify
FileDescriptionXLSX_identify(self, filepath, table) ==
    IF filepath = <<>> THEN Outcome(Raise("ValueError"), <<>>)
    ELSE FilenameStages(self, filepath, LAMBDA e3 :
         Check(match_xlsx_header(table, self.file_header), e3 \o <<"header">>,
               LAMBDA e4 : XlsxEntryStage(self, table, e4)))

\* base_importer/banking_importer.py: identify delegates to the file descriptor
BankingImporter_identify(file_description, filepath, table) ==
    IF file_description.kind = "FileDescriptionCSV"
    THEN FileDescriptionCSV_identify(file_description, filepath, table)
    ELSE FileDescriptionXLSX_identify(file_description, filepath, table)

\* descriptors/file.py: FileDescriptionCSV.date and FileDescriptionXLSX.date
FileDescription_date(self, filepath) ==
    extract_date_from_filename(filepath, self.file_pattern_regex, self.file_date_format)

\* base_importer/banking_importer.py: date delegates to the file descriptor
BankingImporter_date(file_description, filepath) ==
    FileDescription_date(file_description, filepath)

\* ------------------------------------------------------- sample statements

\* The names of the sample files: two statements with a date, one whose date
\* text is no date, one with another prefix and one workbook.
FileNames ==
    { Sample.TxtSt \o Sample.Aug01 \o Sample.DotCsv,
      Sample.TxtSt \o Sample.Aug31 \o Sample.TxtEn \o Sample.DotCsv,
      Sample.TxtSt \o Sample.Month13 \o Sample.DotCsv,
      Sample.TxtXx \o Sample.Aug01 \o Sample.DotCsv,
      Sample.TxtSt \o Sample.Aug01 \o Sample.DotXlsx }

RECURSIVE Join(_, _)
Join(dirs, name) ==
    IF dirs = <<>> THEN name ELSE Head(dirs) \o <<"/">> \o Join(Tail(dirs), name)

\* The paths: the empty path, and every sample name below at most MaxDirs
\* sample directories, one of them named like a statement.
Paths ==
    LET DirNames == { <<"i", "n">>, Sample.TxtSt \o Sample.Aug01 \o Sample.DotCsv }
    IN  {EmptyText} \cup
        { Join(dirs, name) : dirs \in UNION {[1..n -> DirNames] : n \in 0..MaxDirs},
                             name \in FileNames }

\* The header the descriptors expect.
FileHeader == <<"Type", "Currency">>

\* What the file at the path holds: its header, or the same columns in another
\* order; no data row, a first row in EUR, or a first row in CHF followed by a
\* row in EUR.
Tables ==
    LET DataRow(currency) == [Type |-> Sample.TOPUP, Currency |-> currency]
    IN  { Table(h, rows) :
            h \in {FileHeader, <<"Currency", "Type">>},
            rows \in { <<>>, <<DataRow(EUR)>>, <<DataRow(CHF), DataRow(EUR)>> } }

\* The file descriptors: for comma-separated files or workbooks, with the
\* pattern of the statements or the empty pattern, with or without a mapping
\* of required cells (the empty mapping included) and date bounds, which are
\* dates of sample statements.
FileDescriptions ==
    { [ kind |-> k.kind, file_extension |-> k.ext,
        file_pattern_regex |-> IF dated
                               THEN [kind |-> "dated", prefix |-> Sample.TxtSt, suffix |-> k.ext]
                               ELSE EmptyRegex,
        file_date_format |-> FormatDate, file_header |-> FileHeader,
        entry_mapping |-> em, start_date |-> sd, end_date |-> ed ] :
      k \in { [kind |-> "FileDescriptionCSV", ext |-> Sample.DotCsv],
              [kind |-> "FileDescriptionXLSX", ext |-> Sample.DotXlsx] },
      dated \in BOOLEAN,
      em \in { NoMapping, Mapping([k \in {} |-> EmptyText]), Mapping([Currency |-> EUR]) },
      sd \in { NoDate, DateValue(Ordinal(2024, 8, 31)) },
      ed \in { NoDate, DateValue(Ordinal(2024, 8, 1)), DateValue(Ordinal(2024, 8, 31)) } }

\* --------------------------------------------------------- sample calls

\* The most extract calls made on one importer.
MaxCalls == 2

\* The longest text handed to shorten_text.
MaxText == 5

\* The longest run of digits and separators handed to convert_text_to_decimal.
MaxNumber == 5

\* All texts over an alphabet of at most n characters.
TextsUpTo(alphabet, n) == UNION {[1..k -> alphabet] : k \in 0..n}

\* The row without one of its columns (the row itself for a column it lacks).
Drop(row, key) == [k \in DOMAIN row \ {key} |-> row[k]]

\* The rows of the sample statements: with a deposit and a withdrawal column,
\* with an amount and a sign word, with a signed amount.
StatementRows ==
    [ DepositWithdraw |->
        { [Deposit |-> d, Withdraw |-> w, Currency |-> c] :
          d \in {EmptyText, Sample.Txt5000, Sample.Txt0, Sample.Txt100},
          w \in {EmptyText, Sample.Txt2000, Sample.Txt0, Sample.TxtMinus2000},
          c \in {Sample.TxtEUR, Sample.TxtEurSpace, Sample.TxtXYZ} },
      SignAmount |->
        { [Sign |-> s, Amount |-> a, Currency |-> c] :
          s \in {Sample.TxtBij, Sample.TxtAf, Sample.TxtCREDIT, Sample.TxtDebit, Sample.TxtPlus},
          a \in {Sample.Txt5000, Sample.Txt123456, Sample.Txt100, Sample.TxtBad},
          c \in {Sample.TxtEUR, Sample.TxtEurSpace, Sample.TxtXYZ} },
      Amount |->
        { [Amount |-> a, Currency |-> c] :
          a \in {Sample.Txt5000, Sample.TxtMinus1234, Sample.Txt100, Sample.TxtBad},
          c \in {Sample.TxtEUR, Sample.TxtEurSpace, Sample.TxtXYZ} } ]

\* A set of rows, and each of them without one of the given columns.
WithDropped(rows, keys) == rows \cup {Drop(r, k) : r \in rows, k \in keys}

\* The amount descriptors, each with the rows of the statements it is for.
AmountCalls ==
    { [fn |-> "amount", descriptor |-> d, text_entry |-> r] :
      d \in { [kind |-> "FromDepositWithdraw", deposit_key |-> "Deposit",
               withdraw_key |-> "Withdraw", currency_key |-> "Currency"],
              [kind |-> "FromDepositWithdrawWithCurrency", deposit_key |-> "Deposit",
               withdraw_key |-> "Withdraw", currency |-> CHF] },
      r \in WithDropped(StatementRows.DepositWithdraw, {"Deposit", "Withdraw", "Currency"}) }
    \cup
    { [fn |-> "amount", descriptor |-> d, text_entry |-> r] :
      d \in { [kind |-> "FromSignAmount", sign_key |-> "Sign", amount_key |-> "Amount",
               currency_key |-> "Currency"],
              [kind |-> "FromSignAmountWithCurrency", sign_key |-> "Sign",
               amount_key |-> "Amount", currency |-> EUR] },
      r \in WithDropped(StatementRows.SignAmount, {"Sign", "Amount", "Currency"}) }
    \cup
    { [fn |-> "amount", descriptor |-> d, text_entry |-> r] :
      d \in { [kind |-> "FromAmount", amount_key |-> "Amount",
               currency_key |-> "Currency"],
              [kind |-> "FromAmountWithCurrency", amount_key |-> "Amount",
               currency |-> CHF] },
      r \in WithDropped(StatementRows.Amount, {"Amount", "Currency"}) }

\* FromPostingTransactionDate on rows of two date cells.
DateCalls ==
    { [fn |-> "date",
       descriptor |-> [kind |-> "FromPostingTransactionDate", posting_date |-> "Posted",
                       transaction_date |-> "Made", date_format |-> FormatDate],
       text_entry |-> r] :
      r \in WithDropped({ [Posted |-> p, Made |-> t] :
                          p \in {Sample.Aug01, Sample.Aug15Text, Sample.Aug31, Sample.Month13},
                          t \in {Sample.Aug01, Sample.Aug15Text, Sample.Aug31, EmptyText} },
                        {"Posted", "Made"}) }

\* Mappings from transaction types to labels, as their items in iteration
\* order; in the last two a label stands under two members.
TypeMappings ==
    { << [member |-> "exchange", labels |-> <<Sample.EXCHANGE>>],
         [member |-> "transfer", labels |-> <<Sample.TOPUP>>],
         [member |-> "skip", labels |-> <<Sample.REFUND>>] >>,
      << [member |-> "transfer", labels |-> <<Sample.TOPUP, Sample.REFUND>>],
         [member |-> "skip", labels |-> <<Sample.REFUND, Sample.EXCHANGE>>],
         [member |-> "exchange", labels |-> <<Sample.EXCHANGE>>] >>,
      << [member |-> "exchange", labels |-> <<Sample.EXCHANGE>>],
         [member |-> "skip", labels |-> <<Sample.REFUND, Sample.EXCHANGE>>],
         [member |-> "transfer", labels |-> <<Sample.TOPUP, Sample.REFUND>>] >> }

TypeCalls ==
    { [fn |-> "transaction_type",
       descriptor |-> [transaction_type_key |-> "Type", transaction_type_mapping |-> tm],
       text_entry |-> r] :
      tm \in TypeMappings,
      r \in WithDropped({ [Type |-> t, Amount |-> Sample.Txt5000] :
                          t \in {Sample.TOPUP, Sample.EXCHANGE, Sample.REFUND, Sample.UNKNOWN, EmptyText} },
                        {"Type"}) }

\* Number texts: an optional sign, then digits and separators; the examples of
\* the documentation; texts of whitespace.
NumberTexts ==
    { s \o b : s \in {<<>>, <<"-">>, <<"+">>},
               b \in TextsUpTo({"0", "1", ".", ","}, MaxNumber) }
    \cup {Sample.Txt5000, Sample.Txt123456, Sample.Txt1234567, Sample.TxtMinus1234, Sample.Txt100}
    \cup {<<" ">>, <<" ", "\t">>}

DecimalCalls == { [fn |-> "convert_text_to_decimal", text |-> t] : t \in NumberTexts }

ShortenCalls ==
    { [fn |-> "shorten_text", text |-> t, max_length |-> n] :
      t \in TextsUpTo({"a", "b", " "}, MaxText), n \in -2..(MaxText + 1) }

CurrencyCalls ==
    { [fn |-> "convert_text_to_currency", text |-> t] :
      t \in {Sample.TxtEUR, Sample.TxtEurSpace, Sample.TxtChf, Sample.TxtXYZ, Sample.TxtEURO, EmptyText, CHF, Sample.Txt5000} }

\* The three payee/narration descriptors on rows whose cells hold a text, the
\* empty text or no value (None), and on rows without one of the columns.
PayeeNarrationCalls ==
    { [fn |-> "payee_narration", descriptor |-> d, text_entry |-> r] :
      d \in { [kind |-> "FromPayeeNarration", payee_key |-> "Counterparty",
               max_payee_length |-> 4, narration_key |-> "Description",
               max_narration_length |-> 8],
              [kind |-> "FromPayeeNarration", payee_key |-> "Counterparty",
               max_payee_length |-> -1, narration_key |-> "Description",
               max_narration_length |-> -1],
              [kind |-> "FromPayee", payee_key |-> "Counterparty",
               max_payee_length |-> 4],
              [kind |-> "FromPayee", payee_key |-> "Counterparty",
               max_payee_length |-> -1],
              [kind |-> "FromNarration", narration_key |-> "Description",
               max_narration_length |-> 8],
              [kind |-> "FromNarration", narration_key |-> "Description",
               max_narration_length |-> -1] },
      r \in WithDropped({ [Counterparty |-> c, Description |-> n] :
                            c \in {Sample.Acme, EmptyText, None},
                            n \in {Sample.TopUpByCard, EmptyText, None} },
                        {"Counterparty", "Description"}) }

Calls ==
    AmountCalls \cup DateCalls \cup TypeCalls \cup DecimalCalls \cup ShortenCalls
        \cup CurrencyCalls \cup PayeeNarrationCalls

\* ------------------------------------------------------------------ state

VARIABLES
    file_description,  \* the file descriptor of the importer
    filepath,          \* the path handed to identify / date
    table,             \* what the file at the path holds
    called,            \* the method called on the path: "none", "identify", "date"
    outcome            \* what the call returned or raised, and the stages it evaluated

fvars == <<file_description, filepath, table, called, outcome>>

NoOutcome == Outcome(Ok(FALSE), <<>>)

\* No file descriptor is under consideration.
FileIdle ==
    /\ file_description = NoDescriptor
    /\ filepath = EmptyText
    /\ table = Table(<<>>, <<>>)
    /\ called = "none"
    /\ outcome = NoOutcome

VARIABLES
    args,       \* a call of a descriptor or of a text function: what is called, on what
    ret         \* what the call returned or raised, NotCalled before it

cvars == <<args, ret>>

NotCalled == [called |-> FALSE]

Returns(r) == [called |-> TRUE, ok |-> r.ok, val |-> r.val, err |-> r.err]

\* No call of a descriptor or a text function is under consideration.
CallIdle ==
    /\ args = [fn |-> "none"]
    /\ ret = NotCalled

\* ---------------------------------------------------------------- extract

VARIABLES
    self,       \* the importer: its immutable configuration
    file,       \* the rows file_description.read(filepath) yields
    existing,   \* the entries handed to extract as `existing`
    calls,      \* the number of extract calls made on the importer so far
    pc,         \* where the extract call is: "call", "loop", "done", "raised"
    lineno,     \* the number of rows the loop has consumed
    entries,    \* extract's local list `entries`
    balances,   \* extract's local dict `balances`, its items in insertion order
    result,     \* the list extract returned (once pc = "done")
    error       \* the exception extract raised (once pc = "raised")

evars == <<self, file, existing, calls, pc, lineno, entries, balances, result, error>>

\* bool(x) of what a date descriptor returns: a date and a 2-tuple are true.
Truthy(v) == v.tag \in {"date", "tuple"}

\* bool(balance) of an Amount, a named tuple of two fields: true, zero or not.
AmountTruthy(balance) == Cardinality(DOMAIN balance) > 0

\* AddDay, had no day been added.
AddNoDay(v) == IF v.tag = "date" THEN Ok(v) ELSE Raise("TypeError")

\* date + datetime.timedelta(days=1): defined on a date, a TypeError on a tuple.
AddDay(v) == IF v.tag = "date" THEN Ok(DateValue(v.a + 1)) ELSE Raise("TypeError")

\* data.Posting(account, units, None, None, None, None)
Posting(account, units) == [account |-> account, units |-> units]

\* data.Transaction(meta, date, flag, payee, narration, tags, links, postings);
\* meta is the row's line number.
Transaction(meta, date, payee, narration, postings) ==
    [ type |-> "Transaction", meta |-> meta, date |-> date, payee |-> payee,
      narration |-> narration, account |-> "", amount |-> <<>>, postings |-> postings ]

\* data.Balance(meta, date, account, amount, tolerance, diff_amount)
Balance(meta, date, account, amount) ==
    [ type |-> "Balance", meta |-> meta, date |-> date, payee |-> None,
      narration |-> None, account |-> account, amount |-> amount, postings |-> <<>> ]

\* Raises, had the loop caught the exception and gone on to the next row.
RaisesSwallowed(r) == [raised |-> FALSE, err |-> "none", txns |-> <<>>, bals |-> <<>>]

\* What one pass of the loop body does: it raises err, or it appends txns to
\* `entries` and bals to `balances`.
Raises(r) == [raised |-> TRUE, err |-> r.err, txns |-> <<>>, bals |-> <<>>]

Appends(txns, bals) == [raised |-> FALSE, err |-> "none", txns |-> txns, bals |-> bals]

Then(r, rest(_)) == IF r.ok THEN rest(r.val) ELSE Raises(r)

\* FeeAmount, had the fee descriptor never been called.
FeeAmountNotComputed(imp, row) == Ok(None)

\* if self.get_fee_amount and self.fee_account: fee = self.get_fee_amount(row)
FeeAmount(imp, row) ==
    IF imp.get_fee_amount.kind # "None" /\ imp.fee_account # "None"
    THEN CallAmount(imp.get_fee_amount, row) ELSE Ok(None)

\* SkipRow, had the row's classification been consulted as well.
SkipRowOrSkipType(date, transaction_type) == ~Truthy(date) \/ transaction_type = "skip"

\* if not date: continue -- the one test that drops a row.
SkipRow(date, transaction_type) == ~Truthy(date)

\* LoopBody, had the transaction been built from `date` and `amount` after
\* they were rebound for the balance entry.
LoopBodyRebound(imp, n, row) ==
    Then(CallDate(imp.get_date, row), LAMBDA date :
    Then(CallPayeeNarration(imp.get_payee_narration, row), LAMBDA pn :
    Then(CallAmount(imp.get_root_amount, row), LAMBDA amount :
    Then(FromTransactionType(imp.get_transaction_type, row), LAMBDA transaction_type :
    IF SkipRow(date, transaction_type) THEN Appends(<<>>, <<>>)
    ELSE
    Then(FeeAmount(imp, row), LAMBDA fee :
    IF imp.get_balance.kind = "None"
    THEN Appends(<<Transaction(n, date, pn.payee, pn.narration,
                               <<Posting(imp.root_account, amount)>>)>>, <<>>)
    ELSE
    Then(CallAmount(imp.get_balance, row), LAMBDA balance :
    Then(AddDay(date), LAMBDA next_day :
    Appends(<<Transaction(n, next_day, pn.payee, pn.narration,
                          <<Posting(imp.root_account, balance)>>)>>,
            <<Balance(n, next_day, imp.root_account, balance)>>))))))))

\* The body of extract's loop for the row at line n.
LoopBody(imp, n, row) ==
    Then(CallDate(imp.get_date, row), LAMBDA date :
    Then(CallPayeeNarration(imp.get_payee_narration, row), LAMBDA pn :
    Then(CallAmount(imp.get_root_amount, row), LAMBDA amount :
    Then(FromTransactionType(imp.get_transaction_type, row), LAMBDA transaction_type :
    IF SkipRow(date, transaction_type) THEN Appends(<<>>, <<>>)
    ELSE
    Then(FeeAmount(imp, row), LAMBDA fee :
    IF imp.get_balance.kind = "None"
    THEN Appends(<<Transaction(n, date, pn.payee, pn.narration,
                               <<Posting(imp.root_account, amount)>>)>>, <<>>)
    ELSE
    Then(CallAmount(imp.get_balance, row), LAMBDA balance :
    IF ~AmountTruthy(balance)
    THEN Appends(<<Transaction(n, date, pn.payee, pn.narration,
                               <<Posting(imp.root_account, amount)>>)>>, <<>>)
    ELSE
    Then(AddDay(date), LAMBDA next_day :
    Appends(<<Transaction(n, date, pn.payee, pn.narration,
                          <<Posting(imp.root_account, amount)>>)>>,
            <<Balance(n, next_day, imp.root_account, balance)>>))))))))

\* AppendBalance, had every candidate gone under a key of its own.
AppendBalanceNoMerge(items, b) ==
    items \o <<[currency |-> b.amount.currency, list |-> <<b>>]>>

\* balances[currency].append(b) on the defaultdict(list): a new key goes last.
RECURSIVE AppendBalance(_, _)
AppendBalance(items, b) ==
    IF items = <<>> THEN <<[currency |-> b.amount.currency, list |-> <<b>>]>>
    ELSE IF Head(items).currency = b.amount.currency
    THEN <<[Head(items) EXCEPT !.list = Append(@, b)]>> \o Tail(items)
    ELSE <<Head(items)>> \o AppendBalance(Tail(items), b)

\* LastBalances, had it taken balances[0].
FirstBalances(items) == [i \in DOMAIN items |-> items[i].list[1]]

\* for currency, balances in balances.items(): entries.append(balances[-1])
LastBalances(items) == [i \in DOMAIN items |-> items[i].list[Len(items[i].list)]]

\* Returned, had the balance assertions been put in front.
ReturnedBalancesFirst(ents, items) ==
    IF ents = <<>> THEN <<>>
    ELSE [i \in DOMAIN items |-> items[i].list[Len(items[i].list)]] \o ents

\* What extract returns once the loop is over.
Returned(ents, items) == IF ents = <<>> THEN <<>> ELSE ents \o LastBalances(items)

\* extract as a function of the importer and of the rows of the file: what it
\* returns, or the exception it raises.
ExtractOf(imp, rows) ==
    LET RECURSIVE Loop(_, _, _)
        Loop(n, ents, items) ==
            IF n = Len(rows)
            THEN [raised |-> FALSE, err |-> "none", result |-> Returned(ents, items)]
            ELSE IF LoopBody(imp, n, rows[n + 1]).raised
            THEN [raised |-> TRUE, err |-> LoopBody(imp, n, rows[n + 1]).err,
                  result |-> <<>>]
            ELSE Loop(n + 1, ents \o LoopBody(imp, n, rows[n + 1]).txns,
                      IF LoopBody(imp, n, rows[n + 1]).bals = <<>> THEN items
                      ELSE AppendBalance(items, LoopBody(imp, n, rows[n + 1]).bals[1]))
    IN  Loop(0, <<>>, <<>>)

ExtractInit ==
    /\ self \in Importers
    /\ file \in Files
    /\ existing = <<>>
    /\ calls = 1
    /\ pc = "call"
    /\ lineno = 0
    /\ entries = <<>>
    /\ balances = <<>>
    /\ result = <<>>
    /\ error = "none"
    /\ FileIdle
    /\ CallIdle

\* ExtractCall, had `entries` been kept from one call to the next.
ExtractCallKeepingEntries ==
    /\ pc = "call"
    /\ pc' = "loop"
    /\ lineno' = 0
    /\ balances' = <<>>
    /\ UNCHANGED <<self, file, existing, calls, entries, result, error>>
    /\ UNCHANGED fvars
    /\ UNCHANGED cvars

\* extract is called: entries = [], balances = defaultdict(list).
ExtractCall ==
    /\ pc = "call"
    /\ pc' = "loop"
    /\ lineno' = 0
    /\ entries' = <<>>
    /\ balances' = <<>>
    /\ UNCHANGED <<self, file, existing, calls, result, error>>
    /\ UNCHANGED fvars
    /\ UNCHANGED cvars

RowAppended(out) ==
    /\ ~out.raised
    /\ entries' = entries \o out.txns
    /\ balances' = IF out.bals = <<>> THEN balances
                   ELSE AppendBalance(balances, out.bals[1])

RowRaised(out) ==
    /\ out.raised
    /\ error' = out.err

\* The loop body completes for the next row.
ExtractRow ==
    /\ pc = "loop"
    /\ lineno < Len(file)
    /\ RowAppended(LoopBody(self, lineno, file[lineno + 1]))
    /\ lineno' = lineno + 1
    /\ UNCHANGED <<self, file, existing, calls, pc, result, error>>
    /\ UNCHANGED fvars
    /\ UNCHANGED cvars

\* The loop body raises for the next row: the exception leaves extract.
ExtractRaise ==
    /\ pc = "loop"
    /\ lineno < Len(file)
    /\ RowRaised(LoopBody(self, lineno, file[lineno + 1]))
    /\ pc' = "raised"
    /\ UNCHANGED <<self, file, existing, calls, lineno, entries, balances, result>>
    /\ UNCHANGED fvars
    /\ UNCHANGED cvars

\* The reader is exhausted: extract returns.
ExtractReturn ==
    /\ pc = "loop"
    /\ lineno = Len(file)
    /\ result' = Returned(entries, balances)
    /\ pc' = "done"
    /\ UNCHANGED <<self, file, existing, calls, lineno, entries, balances, error>>
    /\ UNCHANGED fvars
    /\ UNCHANGED cvars

Next == ExtractCall \/ ExtractRow \/ ExtractRaise \/ ExtractReturn

vars == <<evars, fvars, cvars>>

Spec == ExtractInit /\ [][Next]_vars

\* ------------------------------------------------------ claims on extract

IsTransaction(e) == e.type = "Transaction"

IsBalance(e) == e.type = "Balance"

\* The rows of the file by line number, the first row at line 0.
Lines == 0..(Len(file) - 1)

RowAt(n) == file[n + 1]

\* The date descriptor returned a date for the row (it did not raise and what it
\* returned is not absent): the row is not skipped.
DateReturned(row) ==
    CallDate(self.get_date, row).ok /\ Truthy(CallDate(self.get_date, row).val)

\* The lines of the rows that are not skipped, in file order.
KeptLines == SelectSeq([i \in 1..Len(file) |-> i - 1], LAMBDA n : DateReturned(RowAt(n)))

BalanceConfigured == self.get_balance.kind # "None"

FeeConfigured == self.get_fee_amount.kind # "None" /\ self.fee_account # "None"

\* The row is not skipped and its balance cell gives a balance in currency c.
YieldsBalance(n, c) ==
    /\ BalanceConfigured
    /\ DateReturned(RowAt(n))
    /\ CallAmount(self.get_balance, RowAt(n)).ok
    /\ CallAmount(self.get_balance, RowAt(n)).val.currency = c

\* The last line, in file order, that yields a balance in currency c.
LastLine(c) == CHOOSE n \in Lines : YieldsBalance(n, c) /\
                   \A m \in Lines : YieldsBalance(m, c) => m <= n

ResultTransactions == SelectSeq(result, IsTransaction)

ResultBalances == SelectSeq(result, IsBalance)

\* C1: when extract succeeds its result is the transactions, one per row that
\* is not skipped and in the file's row order, followed by the balance
\* assertions: no balance assertion precedes a transaction.
C1_TransactionsThenBalances ==
    pc = "done" =>
        /\ Len(ResultTransactions) = Len(KeptLines)
        /\ \A i \in DOMAIN result :
              IF i <= Len(KeptLines)
              THEN IsTransaction(result[i]) /\ result[i].meta = KeptLines[i]
              ELSE IsBalance(result[i])

\* A successful extract of two rows in two currencies: two transactions, then
\* two balance assertions.
C1_Witness ==
    /\ pc = "done"
    /\ Len(ResultTransactions) = 2
    /\ Len(ResultBalances) = 2

empty_date == EmptyText

\* Every descriptor but the date descriptor accepts the row.
RestOfRowValid(row) ==
    /\ CallPayeeNarration(self.get_payee_narration, row).ok
    /\ CallAmount(self.get_root_amount, row).ok
    /\ FromTransactionType(self.get_transaction_type, row).ok
    /\ FeeConfigured => CallAmount(self.get_fee_amount, row).ok
    /\ BalanceConfigured => CallAmount(self.get_balance, row).ok

\* C5, as the spec states it: with FromDate, a row whose date cell is the
\* empty-date sentinel does not make extract fail.
C5_SentinelRowDoesNotFail ==
    ( /\ pc = "raised"
      /\ self.get_date.kind = "FromDate"
      /\ self.get_date.date \in DOMAIN RowAt(lineno)
      /\ RestOfRowValid(RowAt(lineno)) )
    => RowAt(lineno)[self.get_date.date] # empty_date

\* C6: the number of transactions extract returns is the number of rows for
\* which the date descriptor returned a date; rows whose type is skip, whose
\* amount is zero or whose narration is empty are emitted like any other.
C6_OneTransactionPerDatedRow ==
    pc = "done" =>
        /\ Len(ResultTransactions) = Cardinality({n \in Lines : DateReturned(RowAt(n))})
        /\ \A n \in Lines : DateReturned(RowAt(n)) =>
               \E i \in DOMAIN result : IsTransaction(result[i]) /\ result[i].meta = n

\* A successful extract that emitted a row of type skip, amount zero and empty
\* narration.
C6_Witness ==
    /\ pc = "done"
    /\ \E i \in DOMAIN result :
          /\ IsTransaction(result[i])
          /\ FromTransactionType(self.get_transaction_type, RowAt(result[i].meta)).val
                 = "skip"
          /\ result[i].postings[1].units.number.coef = 0
          /\ result[i].narration = <<>>

\* The exception of the first descriptor, in the order extract invokes them,
\* that rejects the row ("none" when none does).
FirstDescriptorError(row) ==
    IF ~CallDate(self.get_date, row).ok THEN CallDate(self.get_date, row).err
    ELSE IF ~CallPayeeNarration(self.get_payee_narration, row).ok
    THEN CallPayeeNarration(self.get_payee_narration, row).err
    ELSE IF ~CallAmount(self.get_root_amount, row).ok
    THEN CallAmount(self.get_root_amount, row).err
    ELSE IF ~FromTransactionType(self.get_transaction_type, row).ok
    THEN FromTransactionType(self.get_transaction_type, row).err
    ELSE IF FeeConfigured /\ ~CallAmount(self.get_fee_amount, row).ok
    THEN CallAmount(self.get_fee_amount, row).err
    ELSE IF BalanceConfigured /\ ~CallAmount(self.get_balance, row).ok
    THEN CallAmount(self.get_balance, row).err
    ELSE "none"

\* C7: extract is all-or-nothing.  It returns only if no descriptor it invokes
\* rejects any row; when one does, the call raises that descriptor's error and
\* returns nothing, however many rows went before.
C7_AllOrNothing ==
    /\ pc = "done" => \A n \in Lines : FirstDescriptorError(RowAt(n)) = "none"
    /\ pc = "loop" => \A n \in Lines : n < lineno => FirstDescriptorError(RowAt(n)) = "none"
    /\ pc = "raised" =>
          /\ result = <<>>
          /\ FirstDescriptorError(RowAt(lineno)) # "none"
                 => error = FirstDescriptorError(RowAt(lineno))
    /\ (pc \in {"call", "loop"} /\ \E n \in Lines : FirstDescriptorError(RowAt(n)) # "none")
           => result = <<>>

\* extract raised on the second row, a balance cell the balance descriptor
\* rejects, after the first row had been appended to `entries`.
C7_Witness ==
    /\ pc = "raised"
    /\ lineno = 1
    /\ entries # <<>>
    /\ FeeConfigured
    /\ FirstDescriptorError(RowAt(1)) = "InvalidOperation"
    /\ CallAmount(self.get_fee_amount, RowAt(1)).ok

\* The transaction of the row at line n, from that row and the configuration
\* of the importer alone.
RowTransaction(n) ==
    Transaction(n, CallDate(self.get_date, RowAt(n)).val,
                CallPayeeNarration(self.get_payee_narration, RowAt(n)).val.payee,
                CallPayeeNarration(self.get_payee_narration, RowAt(n)).val.narration,
                <<Posting(self.root_account, CallAmount(self.get_root_amount, RowAt(n)).val)>>)

\* C22: every transaction extract returns has exactly one posting, on the root
\* account with the row's root amount; with a fee descriptor and a fee account
\* configured the fee amount is computed for every row that is emitted (a fee
\* cell that does not convert makes the call fail) and no fee posting is attached.
C22_OnePostingFeeComputed ==
    /\ pc = "done" =>
          \A i \in DOMAIN result : IsTransaction(result[i]) =>
              /\ Len(result[i].postings) = 1
              /\ result[i].postings[1] =
                     Posting(self.root_account,
                             CallAmount(self.get_root_amount, RowAt(result[i].meta)).val)
              /\ FeeConfigured => CallAmount(self.get_fee_amount, RowAt(result[i].meta)).ok
    /\ pc \in {"loop", "done"} =>
          \A i \in DOMAIN entries :
              /\ Len(entries[i].postings) = 1
              /\ entries[i].postings[1].account = self.root_account

\* extract returned a transaction of one posting of 12.34 EUR on the root
\* account, with the fee account and the fee descriptor configured.
C22_Witness ==
    /\ pc = "done"
    /\ FeeConfigured
    /\ \E i \in DOMAIN result :
          /\ IsTransaction(result[i])
          /\ CallAmount(self.get_fee_amount, RowAt(result[i].meta)).ok
          /\ result[i].postings =
                 <<Posting("Assets:Revolut",
                           Amount([coef |-> 1234, scale |-> 2], EUR))>>

\* The file with the type label of every row replaced.
Relabelled(rows, label) == [i \in DOMAIN rows |-> [rows[i] EXCEPT !.Type = label]]

\* C26: what extract returns does not depend on the TransactionType the rows
\* resolve to: with the labels of the rows replaced by other labels the mapping
\* recognizes the same entries are returned (a row classified skip is emitted
\* like any other); a label the mapping does not recognize makes the call fail.
C26_TypeNotConsulted ==
    pc = "done" =>
        /\ \A label \in {Sample.TOPUP, Sample.EXCHANGE, Sample.REFUND} :
               ExtractOf(self, Relabelled(file, label))
                   = [raised |-> FALSE, err |-> "none", result |-> result]
        /\ file # <<>> => ExtractOf(self, Relabelled(file, Sample.UNKNOWN)).raised

\* extract returned the transactions of a row classified transfer and of a row
\* classified skip.
C26_Witness ==
    /\ pc = "done"
    /\ Len(ResultTransactions) = 2
    /\ FromTransactionType(self.get_transaction_type, RowAt(0)).val = "transfer"
    /\ FromTransactionType(self.get_transaction_type, RowAt(1)).val = "skip"

\* The posting date of a row: the date in the first date column of the
\* descriptor.
RowPostingDate(row) ==
    strptime_date(row[IF self.get_date.kind = "FromDate" THEN self.get_date.date
                      ELSE self.get_date.posting_date],
                  self.get_date.date_format).val

\* C29, as the spec states it: with either date descriptor every transaction
\* extract returns carries one calendar date, the posting date of its row, and
\* every balance assertion is dated the day after the posting date; with
\* FromPostingTransactionDate and a balance descriptor extract succeeds on valid
\* rows.
C29_PostingDateOfEitherDescriptor ==
    /\ pc = "done" =>
          \A i \in DOMAIN result :
              /\ result[i].date.tag = "date"
              /\ result[i].date.a = RowPostingDate(RowAt(result[i].meta))
                                        + (IF IsBalance(result[i]) THEN 1 ELSE 0)
    /\ pc = "raised" => FirstDescriptorError(RowAt(lineno)) # "none"

\* C30: the transaction emitted for a row depends on that row and on the
\* configuration alone, whatever rows precede or follow it; a later row never
\* alters or removes a transaction already appended, and the date and amount
\* of the balance entry do not leak into a transaction.
C30_TransactionOfTheRowAlone ==
    /\ pc \in {"loop", "done"} =>
          /\ Len(entries) = Cardinality({n \in Lines : n < lineno /\ DateReturned(RowAt(n))})
          /\ \A i \in DOMAIN entries :
                 /\ entries[i].meta < lineno
                 /\ entries[i] = RowTransaction(entries[i].meta)
                 /\ \A j \in DOMAIN entries : i < j => entries[i].meta < entries[j].meta
    /\ pc = "done" => ResultTransactions = entries

\* extract returned the transactions of two rows, each followed in the loop by
\* its balance entry in another currency and on another day.
C30_Witness ==
    /\ pc = "done"
    /\ BalanceConfigured
    /\ Len(entries) = 2
    /\ Len(ResultBalances) = 2
    /\ entries[1].date # entries[2].date
    /\ entries[1] = RowTransaction(0)
    /\ entries[2] = RowTransaction(1)

\* ------------------------------------- repeated calls on one importer

\* Rows of a statement in the Revolut shape, dated by a timestamp: two posted
\* rows, and pending rows (no completion date) that are otherwise well-formed
\* or have an amount, a currency or a type the descriptors reject.
RevolutRows ==
    LET posted  == BaseRow(Sample.Aug01At10, Sample.TxtEUR)
        pending == [posted EXCEPT !.CompletedDate = EmptyText]
    IN  { posted,
          BaseRow(Sample.Aug31At23, Sample.TxtChf),
          pending,
          [pending EXCEPT !.Amount = Sample.TxtBad],
          [pending EXCEPT !.Currency = Sample.TxtXYZ],
          [pending EXCEPT !.Type = Sample.UNKNOWN] }

RevolutFiles == UNION {[1..n -> RevolutRows] : n \in 0..MaxRows}

\* The importer of importers/revolut_banking.py, with FromDate as it is and
\* with the empty-date sentinel.
RevolutImporters ==
    { [ root_account |-> "Assets:Revolut", fee_account |-> "Expenses:Fee",
        get_date |-> gd,
        get_payee_narration |-> [kind |-> "FromNarration",
                                 narration_key |-> "Description",
                                 max_narration_length |-> 40],
        get_transaction_type |-> TypeDescriptor,
        get_root_amount |-> AmountDescriptor("Amount"),
        get_fee_amount |-> AmountDescriptor("Fee"),
        get_balance |-> AmountDescriptor("Balance") ] :
      gd \in { [kind |-> "FromDate", date |-> "CompletedDate",
                date_format |-> FormatTimestamp],
               [kind |-> "FromDateOrAbsent", date |-> "CompletedDate",
                date_format |-> FormatTimestamp, empty_date |-> EmptyText] } }

\* The lists handed to extract as `existing`: none, or an entry of the ledger.
ExistingEntries ==
    { <<>>,
      <<Balance(0, DateValue(Ordinal(2024, 8, 1)), "Assets:Revolut",
                Amount([coef |-> 0, scale |-> 2], EUR))>> }

SessionInit ==
    /\ self \in RevolutImporters
    /\ file \in RevolutFiles
    /\ existing \in ExistingEntries
    /\ calls = 1
    /\ pc = "call"
    /\ lineno = 0
    /\ entries = <<>>
    /\ balances = <<>>
    /\ result = <<>>
    /\ error = "none"
    /\ FileIdle
    /\ CallIdle

\* extract is called again on the same importer, on any file and with any
\* `existing`; the locals of the call that ended are what it left them.
ExtractAgain ==
    /\ pc \in {"done", "raised"}
    /\ calls < MaxCalls
    /\ calls' = calls + 1
    /\ file' \in RevolutFiles
    /\ existing' \in ExistingEntries
    /\ pc' = "call"
    /\ result' = <<>>
    /\ error' = "none"
    /\ UNCHANGED <<self, lineno, entries, balances>>
    /\ UNCHANGED fvars
    /\ UNCHANGED cvars

NextSession == ExtractCall \/ ExtractRow \/ ExtractRaise \/ ExtractReturn \/ ExtractAgain

SpecSession == SessionInit /\ [][NextSession]_vars

\* The calendar date of a timestamp cell: its first ten characters.
CalendarDate(cell) == strptime_date(SubSeq(cell, 1, 10), FormatDate).val

\* C23: for a file with one valid row in the Revolut shape, read with a
\* timestamp format, extract returns two entries: a transaction dated the
\* calendar date of the row's timestamp with the row's amount and currency,
\* then a balance assertion dated the next day with the row's balance and
\* currency.
C23_RevolutRowEndToEnd ==
    ( /\ pc \in {"done", "raised"}
      /\ Len(file) = 1
      /\ FirstDescriptorError(RowAt(0)) = "none"
      /\ DateReturned(RowAt(0)) )
    => /\ pc = "done"
       /\ Len(result) = 2
       /\ IsTransaction(result[1])
       /\ result[1].date = DateValue(CalendarDate(RowAt(0).CompletedDate))
       /\ result[1].postings[1].units
              = Amount(convert_text_to_decimal(RowAt(0).Amount).val,
                       convert_text_to_currency(RowAt(0).Currency).val)
       /\ IsBalance(result[2])
       /\ result[2].date = DateValue(CalendarDate(RowAt(0).CompletedDate) + 1)
       /\ result[2].amount
              = Amount(convert_text_to_decimal(RowAt(0).Balance).val,
                       convert_text_to_currency(RowAt(0).Currency).val)

\* The row of 2024-08-01 10:00:00 with 12.34 EUR and a balance of 100.00 EUR
\* gave a transaction on 2024-08-01 and a balance assertion on 2024-08-02.
C23_Witness ==
    /\ pc = "done"
    /\ self.get_date.kind = "FromDate"
    /\ file = <<BaseRow(Sample.Aug01At10, Sample.TxtEUR)>>
    /\ result[1].date = DateValue(Ordinal(2024, 8, 1))
    /\ result[1].postings[1].units = Amount([coef |-> 1234, scale |-> 2], EUR)
    /\ result[2].date = DateValue(Ordinal(2024, 8, 2))
    /\ result[2].amount = Amount([coef |-> 10000, scale |-> 2], EUR)

\* C24: extract keeps no state between calls: after any earlier calls on the
\* importer, succeeding or failing, what extract returns or raises is what it
\* returns or raises on the rows of the file alone, whatever `existing` holds;
\* no step changes the configuration of the importer.
C24_NoStateBetweenCalls ==
    /\ [](pc = "done" =>
             ExtractOf(self, file) = [raised |-> FALSE, err |-> "none", result |-> result])
    /\ [](pc = "raised" =>
             ExtractOf(self, file) = [raised |-> TRUE, err |-> error, result |-> <<>>])
    /\ [][self' = self]_vars

\* A second call on the importer, with an entry in `existing`, returned one
\* transaction and its balance assertion.
C24_Witness ==
    /\ pc = "done"
    /\ calls = 2
    /\ existing # <<>>
    /\ Len(result) = 2
    /\ IsTransaction(result[1])

\* The date descriptor returns an absent date for the row.
DateAbsent(row) ==
    CallDate(self.get_date, row).ok /\ ~Truthy(CallDate(self.get_date, row).val)

ExtractIdle ==
    /\ self = NoDescriptor
    /\ file = <<>>
    /\ existing = <<>>
    /\ calls = 0
    /\ pc = "idle"
    /\ lineno = 0
    /\ entries = <<>>
    /\ balances = <<>>
    /\ result = <<>>
    /\ error = "none"

FileInit ==
    /\ file_description \in FileDescriptions
    /\ filepath \in Paths
    /\ table \in Tables
    /\ called = "none"
    /\ outcome = NoOutcome
    /\ ExtractIdle
    /\ CallIdle

\* importer.identify(filepath)
Identify ==
    /\ called = "none"
    /\ called' = "identify"
    /\ outcome' = BankingImporter_identify(file_description, filepath, table)
    /\ UNCHANGED <<file_description, filepath, table>>
    /\ UNCHANGED evars
    /\ UNCHANGED cvars

\* importer.date(filepath)
Date ==
    /\ called = "none"
    /\ called' = "date"
    /\ outcome' = Outcome(BankingImporter_date(file_description, filepath), <<>>)
    /\ UNCHANGED <<file_description, filepath, table>>
    /\ UNCHANGED evars
    /\ UNCHANGED cvars

\* importer.date(filepath) on a path that identify has accepted, as the
\* ingestion does for the files it files away.
DateIdentified ==
    /\ called = "identify"
    /\ outcome.ok /\ outcome.val
    /\ called' = "date of identified"
    /\ outcome' = Outcome(BankingImporter_date(file_description, filepath), outcome.evaluated)
    /\ UNCHANGED <<file_description, filepath, table>>
    /\ UNCHANGED evars
    /\ UNCHANGED cvars

NextFile == Identify \/ Date \/ DateIdentified

SpecFile == FileInit /\ [][NextFile]_vars

\* ------------------------------------------- claims on identify and date

\* The name of the file of a path: the sample name the path consists of or
\* ends with after a separator.
NameOf(p) ==
    CHOOSE n \in FileNames \cup {EmptyText} : p = n \/ EndsWith(p, <<"/">> \o n)

MappingConfigured == MappingTruthy(file_description.entry_mapping)

\* The stages of identify in the order the spec gives them.
StageOrder ==
    <<"extension", "pattern", "date", "header">>
        \o (IF MappingConfigured THEN <<"entry">> ELSE <<>>)

NameMatch == re_match(file_description.file_pattern_regex, NameOf(filepath))

\* The date in the name of the file parses and lies within the bounds.
DateWithinBounds ==
    /\ NameMatch.matched
    /\ strptime_date(NameMatch.date, file_description.file_date_format).ok
    /\ file_description.start_date.tag = "date" =>
           file_description.start_date.a
               <= strptime_date(NameMatch.date, file_description.file_date_format).val
    /\ file_description.end_date.tag = "date" =>
           strptime_date(NameMatch.date, file_description.file_date_format).val
               <= file_description.end_date.a

\* What it is for a stage to pass, by the spec's description of the stage.
StagePasses(stage) ==
    CASE stage = "extension" -> EndsWith(filepath, file_description.file_extension)
      [] stage = "pattern" -> NameMatch.matched
      [] stage = "date" -> DateWithinBounds
      [] stage = "header" -> table.header = file_description.file_header
      [] stage = "entry" ->
             /\ table.rows # <<>>
             /\ ContainsItems(table.rows[1], file_description.entry_mapping.items)

\* The first stage that fails, 0 when every stage passes.
FirstFailing ==
    IF \A i \in DOMAIN StageOrder : StagePasses(StageOrder[i]) THEN 0
    ELSE CHOOSE i \in DOMAIN StageOrder :
             /\ ~StagePasses(StageOrder[i])
             /\ \A j \in 1..(i - 1) : StagePasses(StageOrder[j])

ReturnedValue(b) == outcome.ok /\ outcome.val = b

\* The name of the file matches the pattern and the date text does not parse.
DateUnparsable ==
    /\ NameMatch.matched
    /\ ~strptime_date(NameMatch.date, file_description.file_date_format).ok

\* C8, as the spec states it: identify raises on an empty path before any other
\* check; otherwise it evaluates the stages in the order extension, pattern,
\* date, header, entry (the last only when a mapping is configured), returns
\* false at the first stage that fails without evaluating a later one, returns
\* true exactly when every stage passes, and reads the file only after the
\* three filename stages have passed.  (Stated for a configured pattern and a
\* date text that parses: what the other cases yield is the matter of C9.)
C8_StagesInOrderTrueWhenAllPass ==
    called = "identify" =>
        /\ filepath = EmptyText => ~outcome.ok /\ outcome.evaluated = <<>>
        /\ ( /\ filepath # EmptyText
             /\ file_description.file_pattern_regex.kind = "dated"
             /\ ~DateUnparsable ) =>
              /\ FirstFailing = 0 =>
                    ReturnedValue(TRUE) /\ outcome.evaluated = StageOrder
              /\ FirstFailing # 0 =>
                    /\ ReturnedValue(FALSE)
                    /\ outcome.evaluated = SubSeq(StageOrder, 1, FirstFailing)
              /\ (\E i \in DOMAIN outcome.evaluated :
                      outcome.evaluated[i] \in {"header", "entry"})
                    => \A s \in {"extension", "pattern", "date"} : StagePasses(s)

C10_DateFromBasenameOnly ==
    (called = "date" /\ file_description.file_pattern_regex.kind = "dated") =>
        /\ IF NameMatch.matched
              /\ strptime_date(NameMatch.date, file_description.file_date_format).ok
           THEN /\ outcome.ok
                /\ outcome.val =
                       strptime_date(NameMatch.date, file_description.file_date_format).val
           ELSE ~outcome.ok /\ outcome.err = "ValueError"
        /\ \A p \in Paths : NameOf(p) = NameOf(filepath) =>
               Outcome(BankingImporter_date(file_description, p), <<>>) = outcome

\* date returned 31 August for a statement of that date in a directory named
\* like a statement of 1 August.
C10_Witness ==
    /\ called = "date"
    /\ file_description.file_pattern_regex.kind = "dated"
    /\ StartsWith(filepath, Sample.TxtSt \o Sample.Aug01 \o Sample.DotCsv \o <<"/">>)
    /\ outcome.ok
    /\ outcome.val = Ordinal(2024, 8, 31)

\* C27: whenever identify returns true, date succeeds on the same path and the
\* date it returns lies between start_date and end_date, both inclusive, an
\* unset bound imposing no constraint; a file dated exactly start_date or
\* end_date is not rejected for its date.
C27_IdentifiedDateWithinBounds ==
    /\ called = "date of identified" =>
           /\ outcome.ok
           /\ file_description.start_date.tag = "date" =>
                  file_description.start_date.a <= outcome.val
           /\ file_description.end_date.tag = "date" =>
                  outcome.val <= file_description.end_date.a
    /\ ( /\ called = "identify"
         /\ ReturnedValue(FALSE)
         /\ outcome.evaluated # <<>>
         /\ outcome.evaluated[Len(outcome.evaluated)] = "date" )
       => ~DateWithinBounds

\* identify accepted a statement dated 31 August under a start date and an end
\* date of 31 August, and date returned that day.
C27_Witness ==
    /\ called = "date of identified"
    /\ file_description.start_date = DateValue(Ordinal(2024, 8, 31))
    /\ file_description.end_date = DateValue(Ordinal(2024, 8, 31))
    /\ outcome.ok
    /\ outcome.val = Ordinal(2024, 8, 31)

\* ------------------------------- calls of descriptors and of text functions

CallInit ==
    /\ args \in Calls
    /\ ret = NotCalled
    /\ ExtractIdle
    /\ FileIdle

Idle == UNCHANGED args /\ UNCHANGED evars /\ UNCHANGED fvars

\* get_root_amount(row), get_fee_amount(row), get_balance(row)
AmountCall ==
    /\ args.fn = "amount"
    /\ ret = NotCalled
    /\ ret' = Returns(CallAmount(args.descriptor, args.text_entry))
    /\ Idle

\* get_date(row)
DateCall ==
    /\ args.fn = "date"
    /\ ret = NotCalled
    /\ ret' = Returns(CallDate(args.descriptor, args.text_entry))
    /\ Idle

\* get_transaction_type(row)
TypeCall ==
    /\ args.fn = "transaction_type"
    /\ ret = NotCalled
    /\ ret' = Returns(FromTransactionType(args.descriptor, args.text_entry))
    /\ Idle

\* convert_text_to_decimal(text)
DecimalCall ==
    /\ args.fn = "convert_text_to_decimal"
    /\ ret = NotCalled
    /\ ret' = Returns(convert_text_to_decimal(args.text))
    /\ Idle

\* shorten_text(text, max_length)
ShortenCall ==
    /\ args.fn = "shorten_text"
    /\ ret = NotCalled
    /\ ret' = Returns(shorten_text(args.text, args.max_length))
    /\ Idle

\* convert_text_to_currency(text)
CurrencyCall ==
    /\ args.fn = "convert_text_to_currency"
    /\ ret = NotCalled
    /\ ret' = Returns(convert_text_to_currency(args.text))
    /\ Idle

\* get_payee_narration(row)
PayeeNarrationCall ==
    /\ args.fn = "payee_narration"
    /\ ret = NotCalled
    /\ ret' = Returns(CallPayeeNarration(args.descriptor, args.text_entry))
    /\ Idle

NextCall ==
    \/ AmountCall \/ DateCall \/ TypeCall \/ DecimalCall \/ ShortenCall \/ CurrencyCall
    \/ PayeeNarrationCall

SpecCall == CallInit /\ [][NextCall]_vars

\* ------------------------------------------------------- claims on calls

\* The call of the given kind has been made.
Called(fn) == args.fn = fn /\ ret.called

Raised(e) == ~ret.ok /\ ret.err = e

RECURSIVE Pow10(_)
Pow10(n) == IF n = 0 THEN 1 ELSE 10 * Pow10(n - 1)

\* Two Decimals are the same number.
SameNumber(x, y) == x.coef * Pow10(y.scale) = y.coef * Pow10(x.scale)

\* The row of the call has the columns.
HasKeys(keys) == keys \subseteq DOMAIN args.text_entry

Cell(key) == args.text_entry[key]

Kind == args.descriptor.kind

ColumnCurrencyKinds == {"FromAmount", "FromDepositWithdraw", "FromSignAmount"}

FixedCurrencyKinds ==
    {"FromAmountWithCurrency", "FromDepositWithdrawWithCurrency",
     "FromSignAmountWithCurrency"}

\* The currency column, when the descriptor reads one, resolves.
CurrencyResolves ==
    Kind \in ColumnCurrencyKinds =>
        /\ HasKeys({args.descriptor.currency_key})
        /\ convert_text_to_currency(Cell(args.descriptor.currency_key)).ok

DepositValue == convert_text_to_decimal(Cell(args.descriptor.deposit_key))

WithdrawalValue == convert_text_to_decimal(Cell(args.descriptor.withdraw_key))

\* A deposit/withdrawal descriptor was called on a row whose two cells convert
\* (and whose currency resolves).
DepositWithdrawCalled ==
    /\ Called("amount")
    /\ Kind \in {"FromDepositWithdraw", "FromDepositWithdrawWithCurrency"}
    /\ HasKeys({args.descriptor.deposit_key, args.descriptor.withdraw_key})
    /\ CurrencyResolves
    /\ DepositValue.ok /\ WithdrawalValue.ok

\* C11: FromDepositWithdraw and FromDepositWithdrawWithCurrency succeed exactly
\* when one of the two converted values is nonzero and the other zero (an empty
\* cell is zero) and return the nonzero one with its sign unchanged; with both
\* nonzero or both zero they raise ValueError.
C11_ExactlyOneNonzero ==
    DepositWithdrawCalled =>
        IF DepositValue.val.coef # 0 /\ WithdrawalValue.val.coef = 0
        THEN ret.ok /\ ret.val.number = DepositValue.val
        ELSE IF DepositValue.val.coef = 0 /\ WithdrawalValue.val.coef # 0
        THEN ret.ok /\ ret.val.number = WithdrawalValue.val
        ELSE Raised("ValueError")

\* An empty deposit and a withdrawal of 20,00: the amount is +20.00.
C11_Witness ==
    /\ DepositWithdrawCalled
    /\ Cell(args.descriptor.deposit_key) = EmptyText
    /\ Cell(args.descriptor.withdraw_key) = Sample.Txt2000
    /\ ret.ok
    /\ ret.val.number = [coef |-> 2000, scale |-> 2]

AmountValue == convert_text_to_decimal(Cell(args.descriptor.amount_key))

\* A sign/amount descriptor was called on a row whose amount converts (and
\* whose currency resolves).
SignAmountCalled ==
    /\ Called("amount")
    /\ Kind \in {"FromSignAmount", "FromSignAmountWithCurrency"}
    /\ HasKeys({args.descriptor.sign_key, args.descriptor.amount_key})
    /\ CurrencyResolves
    /\ AmountValue.ok

\* The words of the two sign sets, as the spec lists them.
PositiveSigns ==
    { <<"p", "o", "s", "i", "t", "i", "v", "e">>, <<"c", "r", "e", "d", "i", "t">>,
      <<"d", "e", "p", "o", "s", "i", "t">>, <<"g", "a", "i", "n">>,
      <<"i", "n", "c", "r", "e", "a", "s", "e">>, <<"b", "i", "j">> }

NegativeSigns ==
    { <<"n", "e", "g", "a", "t", "i", "v", "e">>, <<"d", "e", "b", "i", "t">>,
      <<"w", "i", "t", "h", "d", "r", "a", "w", "a", "l">>, <<"l", "o", "s", "s">>,
      <<"d", "e", "c", "r", "e", "a", "s", "e">>, <<"a", "f">> }

\* C12: FromSignAmount and FromSignAmountWithCurrency return s x decimal(amount
\* cell), s = +1 for a sign cell that lower-cased is a positive word, s = -1 for
\* a negative word, and raise ValueError for any other sign word.
C12_SignTimesAmount ==
    SignAmountCalled =>
        IF Lower(Cell(args.descriptor.sign_key)) \in PositiveSigns
        THEN ret.ok /\ ret.val.number.scale = AmountValue.val.scale
                    /\ ret.val.number.coef = AmountValue.val.coef
        ELSE IF Lower(Cell(args.descriptor.sign_key)) \in NegativeSigns
        THEN ret.ok /\ ret.val.number.scale = AmountValue.val.scale
                    /\ ret.val.number.coef = -AmountValue.val.coef
        ELSE Raised("ValueError")

\* Sign "Af", amount "50,00" and the fixed currency EUR: -50.00 EUR.
C12_Witness ==
    /\ SignAmountCalled
    /\ Kind = "FromSignAmountWithCurrency"
    /\ Cell(args.descriptor.sign_key) = Sample.TxtAf
    /\ Cell(args.descriptor.amount_key) = Sample.Txt5000
    /\ ret.ok
    /\ ret.val = [number |-> [coef |-> -5000, scale |-> 2], currency |-> EUR]

\* The keys an amount descriptor requires: those of its mode, and the currency
\* key for the variants that read the currency from a column.
RequiredKeys(d) ==
    (CASE d.kind \in {"FromAmount", "FromAmountWithCurrency"} -> {d.amount_key}
       [] d.kind \in {"FromDepositWithdraw", "FromDepositWithdrawWithCurrency"} ->
              {d.deposit_key, d.withdraw_key}
       [] d.kind \in {"FromSignAmount", "FromSignAmountWithCurrency"} ->
              {d.sign_key, d.amount_key})
    \cup (IF d.kind \in ColumnCurrencyKinds THEN {d.currency_key} ELSE {})

\* C13: an amount descriptor raises KeyError exactly when one of its required
\* keys is absent from the row, whatever the other cells hold; a fixed-currency
\* variant does not require a currency column, returns the same with and
\* without it, and returns the configured currency.
C13_MissingKeyFirst ==
    Called("amount") =>
        /\ Raised("KeyError") <=> ~HasKeys(RequiredKeys(args.descriptor))
        /\ Kind \in FixedCurrencyKinds =>
              /\ ret.ok => ret.val.currency = args.descriptor.currency
              /\ ret = Returns(CallAmount(args.descriptor,
                                          Drop(args.text_entry, "Currency")))

\* A row without the currency column and with an amount that does not convert:
\* the missing key wins.
C13_Witness ==
    /\ Called("amount")
    /\ Kind = "FromSignAmount"
    /\ ~HasKeys({"Currency"})
    /\ HasKeys({"Amount"})
    /\ ~convert_text_to_decimal(Cell("Amount")).ok
    /\ Raised("KeyError")

PostingDate == strptime_date(Cell(args.descriptor.posting_date), args.descriptor.date_format)

TransactionDate ==
    strptime_date(Cell(args.descriptor.transaction_date), args.descriptor.date_format)

\* FromPostingTransactionDate was called on two dates that parse.
TwoDatesCalled ==
    /\ Called("date")
    /\ Kind = "FromPostingTransactionDate"
    /\ HasKeys({args.descriptor.posting_date, args.descriptor.transaction_date})
    /\ PostingDate.ok /\ TransactionDate.ok

Hits ==
    {i \in DOMAIN args.descriptor.transaction_type_mapping :
        \E j \in DOMAIN args.descriptor.transaction_type_mapping[i].labels :
            args.descriptor.transaction_type_mapping[i].labels[j]
                = Cell(args.descriptor.transaction_type_key)}

Min(S) == CHOOSE x \in S : \A y \in S : x <= y

\* C15: FromTransactionType returns the first member, in the iteration order of
\* the mapping, whose labels contain the raw type value; it raises ValueError
\* when none does (never a default member) and KeyError without the column.
C15_FirstMemberInMappingOrder ==
    Called("transaction_type") =>
        IF ~HasKeys({args.descriptor.transaction_type_key}) THEN Raised("KeyError")
        ELSE IF Hits = {} THEN Raised("ValueError")
        ELSE ret.ok /\ ret.val = args.descriptor.transaction_type_mapping[Min(Hits)].member

\* A raw value that stands under two members: the one first in the mapping.
C15_Witness ==
    /\ Called("transaction_type")
    /\ HasKeys({args.descriptor.transaction_type_key})
    /\ Cardinality(Hits) = 2
    /\ ret.ok
    /\ ret.val = args.descriptor.transaction_type_mapping[Min(Hits)].member

\* The sign character a number text starts with, and what follows it.
HasSign(text) == text # <<>> /\ text[1] \in {"+", "-"}

NumberBody(text) == IF HasSign(text) THEN Tail(text) ELSE text

Separating(body) == {i \in DOMAIN body : ~IsDigit(body[i])}

\* The number the spec reads in a text: every non-digit character deleted but
\* the last, which is the decimal point; the sign reapplied.
ReadNumber(text) ==
    LET body == NumberBody(text)
        last == CHOOSE i \in Separating(body) : \A j \in Separating(body) : j <= i
    IN  [coef  |-> (IF HasSign(text) /\ text[1] = "-" THEN -1 ELSE 1)
                       * DigitsValue(SelectSeq(body, IsDigit)),
         scale |-> IF Separating(body) = {} THEN 0 ELSE Len(body) - last]

\* C16, as the spec states it: for a text of an optional sign followed by digits
\* and separators, convert_text_to_decimal returns the signed number read by
\* deleting every non-digit character but the last occurrence and taking that
\* one for the decimal point, also when a separator character occurs more than
\* once ("1.234.567" gives 1234.567).
C16_LastSeparatorIsThePoint ==
    ( /\ Called("convert_text_to_decimal")
      /\ Separating(NumberBody(args.text)) # {}
      /\ \E i \in DOMAIN NumberBody(args.text) : IsDigit(NumberBody(args.text)[i])
      /\ \A i \in Separating(NumberBody(args.text)) :
             NumberBody(args.text)[i] \in {".", ","} )
    => ret.ok /\ SameNumber(ret.val, ReadNumber(args.text))

\* The digits of a natural number, without leading zeros ("0" for zero).
RECURSIVE NatDigits(_)
NatDigits(n) ==
    IF n < 10 THEN <<Digits[n + 1]>> ELSE NatDigits(n \div 10) \o <<Digits[(n % 10) + 1]>>

RECURSIVE ZeroFill(_, _)
ZeroFill(digits, width) ==
    IF Len(digits) >= width THEN digits ELSE ZeroFill(<<"0">> \o digits, width)

\* str(d) of a Decimal with at least one decimal place.
FormatDecimal(d) ==
    LET digits == ZeroFill(NatDigits(IF d.coef < 0 THEN -d.coef ELSE d.coef), d.scale + 1)
    IN  (IF d.coef < 0 THEN <<"-">> ELSE <<>>)
            \o SubSeq(digits, 1, Len(digits) - d.scale)
            \o <<".">>
            \o SubSeq(digits, Len(digits) - d.scale + 1, Len(digits))

\* A text of an optional minus, digits, one decimal point and digits.
PlainDecimal(text) ==
    LET body == IF text # <<>> /\ text[1] = "-" THEN Tail(text) ELSE text
    IN  /\ Cardinality({i \in DOMAIN body : body[i] = "."}) = 1
        /\ \A i \in DOMAIN body : IsDigit(body[i]) \/ body[i] = "."
        /\ body # <<>> /\ IsDigit(body[1]) /\ IsDigit(body[Len(body)])

\* C17: convert_text_to_decimal round-trips canonical decimal strings: a text
\* of an optional minus, digits, one decimal point and digits converts to the
\* Decimal it writes, and a text that is the string of a Decimal converts to
\* that Decimal.
C17_CanonicalRoundTrip ==
    (Called("convert_text_to_decimal") /\ PlainDecimal(args.text)) =>
        /\ ret.ok
        /\ SameNumber(ret.val, ReadNumber(args.text))
        /\ FormatDecimal(ReadNumber(args.text)) = args.text
               => FormatDecimal(ret.val) = args.text

\* "-12.34" converts to the Decimal -12.34, whose string it is.
C17_Witness ==
    /\ Called("convert_text_to_decimal")
    /\ args.text = Sample.TxtMinus1234
    /\ PlainDecimal(args.text)
    /\ ret.ok
    /\ ret.val = [coef |-> -1234, scale |-> 2]
    /\ FormatDecimal(ret.val) = args.text

\* shorten_text returned the text with the ellipsis marker at its end.
Shortened == ret.ok /\ ret.val # args.text

\* The number of characters shorten_text kept before the ellipsis marker.
KeptLength == Len(ret.val) - Len(Ellipsis)

\* C18, as the spec states it: for n >= 0 the part of shorten_text(s, n) before
\* the ellipsis has at most n characters and no word is split: the text is
\* returned unshortened, or the character of s right after the truncation
\* point is a space.  (The split is stated for a kept part that ends in a
\* character of a word.)
C18_NeverSplitsAWord ==
    (Called("shorten_text") /\ args.max_length >= 0) =>
        /\ ret.ok
        /\ ~Shortened => Len(ret.val) <= args.max_length
        /\ Shortened =>
              /\ KeptLength <= args.max_length
              /\ ret.val = SubSeq(args.text, 1, KeptLength) \o Ellipsis
              /\ (KeptLength >= 1 /\ args.text[KeptLength] # " ")
                     => args.text[KeptLength + 1] = " "

\* Words separated by single spaces: no space at the start, no two in a row.
SingleSpaced(s) ==
    \A i \in DOMAIN s : s[i] = " " => i > 1 /\ s[i - 1] # " "

\* The lengths of the prefixes of s, at most n long, that end where whitespace
\* begins: the character after the prefix is a space.
Boundaries(s, n) == {k \in 0..n : k < Len(s) /\ s[k + 1] = " "}

ClosedEnumeration ==
    { <<"C", "H", "F">>, <<"E", "U", "R">>, <<"S", "E", "K">>, <<"U", "S", "D">>,
      <<"G", "B", "P">> }

\* The letters of a cell, upper-cased.
Letters(text) == Upper(SelectSeq(text, IsAlpha))

\* C20: every Amount an amount descriptor produces carries a currency of the
\* closed enumeration; a currency cell resolves by dropping non-letters and
\* upper-casing ("eur " is EUR) and a cell that resolves to no member ("XYZ")
\* raises ValueError: the raw text is never passed through.
C20_CurrencyOfTheEnumeration ==
    /\ (Called("amount") /\ ret.ok) =>
          /\ ret.val.currency \in ClosedEnumeration
          /\ Kind \in ColumnCurrencyKinds =>
                 ret.val.currency = Letters(Cell(args.descriptor.currency_key))
    /\ ( /\ Called("amount")
         /\ Kind \in ColumnCurrencyKinds
         /\ HasKeys(RequiredKeys(args.descriptor))
         /\ Letters(Cell(args.descriptor.currency_key)) \notin ClosedEnumeration )
       => ~ret.ok
    /\ Called("convert_text_to_currency") =>
          IF Letters(args.text) \in ClosedEnumeration
          THEN ret.ok /\ ret.val = Letters(args.text)
          ELSE Raised("ValueError")

\* An amount descriptor resolved the cell "eur " to EUR.
C20_Witness ==
    /\ Called("amount")
    /\ Kind \in ColumnCurrencyKinds
    /\ HasKeys({args.descriptor.currency_key})
    /\ Cell(args.descriptor.currency_key) = Sample.TxtEurSpace
    /\ ret.ok
    /\ ret.val.currency = EUR

\* The keys the payee/narration descriptor of the call is configured with.
ConfiguresPayee == Kind \in {"FromPayeeNarration", "FromPayee"}

ConfiguresNarration == Kind \in {"FromPayeeNarration", "FromNarration"}

FieldKeys ==
    (IF ConfiguresPayee THEN {args.descriptor.payee_key} ELSE {})
        \cup (IF ConfiguresNarration THEN {args.descriptor.narration_key} ELSE {})

\* shorten_text(reduce_whitespace(clean_text(raw)), max_length), an absent raw
\* value taken as the empty text.
Field(raw, max_length) ==
    shorten_text(reduce_whitespace(clean_text(IF raw = None THEN EmptyText ELSE raw).val),
                 max_length).val

\* C21, as the spec states it: on a row holding its keys each payee/narration
\* descriptor returns the pair whose configured fields are
\* shorten_text(reduce_whitespace(clean_text(raw)), max_length), a null raw
\* value taken as the empty text, and whose other field is absent.
C21_FieldsCleanedOrAbsent ==
    (Called("payee_narration") /\ FieldKeys \subseteq DOMAIN args.text_entry) =>
        /\ ret.ok
        /\ ret.val.payee =
               IF ConfiguresPayee
               THEN Field(args.text_entry[args.descriptor.payee_key],
                          args.descriptor.max_payee_length)
               ELSE None
        /\ ret.val.narration =
               IF ConfiguresNarration
               THEN Field(args.text_entry[args.descriptor.narration_key],
                          args.descriptor.max_narration_length)
               ELSE None

\* C28, as the spec states it: convert_text_to_decimal succeeds on a text of an
\* optional sign and digits without any separator and returns that integer
\* ("100" gives 100, "-5" gives -5); an empty or whitespace-only text gives zero.
C28_IntegersConvert ==
    Called("convert_text_to_decimal") =>
        /\ ( /\ NumberBody(args.text) # <<>>
             /\ \A i \in DOMAIN NumberBody(args.text) : IsDigit(NumberBody(args.text)[i]) )
           => /\ ret.ok
              /\ ret.val = [coef  |-> (IF HasSign(args.text) /\ args.text[1] = "-"
                                       THEN -1 ELSE 1)
                                          * DigitsValue(NumberBody(args.text)),
                            scale |-> 0]
        /\ (\A i \in DOMAIN args.text : IsSpace(args.text[i]))
           => ret.ok /\ ret.val = [coef |-> 0, scale |-> 0]

====
